---- MODULE Spec2Model ----
(***************************************************************************)
(* A model of the Mujibot conversation engine: the session store           *)
(* (internal/session), the command and path guards of the tool dispatcher  *)
(* (internal/tools), the confirmation gate (internal/confirmation) and the *)
(* agent turn (internal/agent).                                            *)
(*                                                                         *)
(* Go strings are sequences of one-character strings, so that              *)
(* concatenation, prefix and substring tests are computed, not assumed.    *)
(* Time is a clock `now` counted in minutes: the session cleanup ticker    *)
(* and the confirmation timeout are both whole minutes, and the code only  *)
(* compares instants.                                                      *)
(*                                                                         *)
(* The operations of the code constrain the program's variables only. The  *)
(* history variables are written by the actions of the specifications      *)
(* that read them (HistXxx below) and stay constant elsewhere.             *)
(***************************************************************************)
EXTENDS Integers, Sequences, FiniteSets, TLC

VARIABLES
    \* ---- session.Manager (internal/session/session.go) ----
    maxMessages,   \* Manager.maxMessages
    maxSessions,   \* Manager.maxSessions
    idleTimeout,   \* Manager.idleTimeout
    sessions,      \* Manager.sessions: key -> the *Session its list element holds
    lruList,       \* Manager.lruList: keys, front (most recently used) first
    heap,          \* the *Session objects: reference -> Session
    now,           \* time.Now()
    \* ---- agent turns (internal/agent/router.go) ----
    turns,         \* turn -> the locals of one Agent.ProcessMessage call
    \* ---- tools.Manager (internal/tools/manager.go) ----
    terminalEnabled,  \* Manager.terminalEnabled
    confirmDangerous, \* Manager.confirmDangerous
    unattendedMode,   \* Manager.unattendedMode
    alwaysAllow,      \* config Tools.AlwaysAllowDangerous
    calls,            \* call -> the locals and the outcome of one tool call
    \* ---- ConfirmationManager (internal/confirmation) ----
    requests,         \* ConfirmationManager.requests: id -> ConfirmationRequest
    nextID,           \* the number of requests created so far
    \* ---- the file system the path tools work on ----
    fs,               \* location -> content of the regular files
    fsOp,             \* the last path tool call and the location it worked on
    \* ---- the LLM client ----
    chat,             \* the blocking Chat call of a provider adapter
    sent,             \* history: the outcome of each request that call sent
    \* ---- the agent router ----
    cfgAgents,        \* the agent ids of the configuration not yet registered
    agents,           \* Router.agents: id -> *Agent
    defaultAgent,     \* Router.defaultAgent
    routed,           \* history: the last Route call, its argument and result
    defaultsSeen,     \* history: the agents Route has returned for the empty id
    \* ---- the provider adapters' wire formats (internal/llm/provider.go) ----
    sse,              \* OpenAIProvider.doStreamRequest: the body and its locals
    built,            \* AnthropicProvider.buildRequest: its argument and result
    \* ---- memory.Manager (internal/memory) ----
    memoryDir,        \* Manager.memoryDir ("" when memory is disabled)
    maxFileSize,      \* Manager.maxFileSize
    memFiles,         \* file of the memory directory -> its size in bytes
    memOp,            \* the last call on the manager and the error it returned
    \* ---- apply_patch ----
    patchArgs,        \* history: the last apply_patch call and the files before it
    \* ---- the channel adapters (telegram, feishu, discord) ----
    allowList,        \* adapter -> Bot.allowedUsers / Bot.allowedGuilds
    inbox,            \* telegram: the updates of getUpdates not yet handled
    goroutines,       \* the handler goroutines the adapters have started
    outbox,           \* the SendMessage calls of the adapters, in order
    delivered,        \* history: the inbound events, in the order they were handled
    handlerLog,       \* history: the handler invocations, in order
    \* ---- a command run under a deadline ----
    toolTimeout,      \* Manager.timeout (config tools.timeout, seconds)
    proc,             \* the running command of execute_command / terminal run
    \* ---- ConfirmationManager: the notifiers and the poll of a waiter ----
    notifiers,        \* ConfirmationManager.notifiers: how many are registered
    notified,         \* the SendConfirmation calls made, by request id, in order
    ticker,           \* call -> the instant its waitForResponse ticker fires next
    \* ---- TerminalTool (internal/tools) ----
    termSessions,     \* TerminalTool.sessions: id -> TerminalSession
    termCount,        \* the number of terminal sessions created so far
    termReturned,     \* history: the ids whose final output a call has returned
    \* ---- health.MemoryGuard ----
    guard,            \* the fields of the MemoryGuard
    guardHist,        \* history: the last check and the run of failed reclamations
    \* ---- session.Manager, with the elements of its list ----
    elements,         \* list.Element -> the sessionEntry it holds
    elemList,         \* Manager.lruList: the elements linked in, front first
    elemMap,          \* Manager.sessions: key -> list.Element
    \* ---- goroutines on the session locks ----
    threads,          \* goroutine -> the session operation it is in
    mu,               \* the holders of Manager.mu and of each Session.mu
    \* ---- history variables ----
    answered,         \* ids that got an Approve or Reject by their ExpiresAt
    toolLog,          \* turn -> the 'tool' messages it has appended
    turnLog,          \* turn -> all the messages it has appended
    respLog,          \* turn -> the responses the provider returned to it
    keyHist,          \* per key: the appends of its turns; per turn: what it sent
    lastOp,        \* the name of the operation that produced this state
    removed,       \* the keys that operation removed from the store
    touched,       \* live keys ordered by their most recent touch, newest first
    activity,      \* reference -> instant of its last GetOrCreate/append/Clear
    returnedFor,   \* reference -> the tuples GetOrCreate returned it for
    appended       \* reference -> the messages appended since creation or Clear

sessCfg == <<maxMessages, maxSessions, idleTimeout>>

storeVars == <<sessions, lruList, heap>>

toolCfg == <<terminalEnabled, confirmDangerous, unattendedMode, alwaysAllow>>

toolSide == <<toolCfg, calls, requests, nextID, answered>>

fsSide == <<fs, fsOp>>

llmSide == <<chat, sent>>

routerSide == <<cfgAgents, agents, defaultAgent, routed, defaultsSeen>>

provSide == <<sse, built>>

memSide == <<memoryDir, maxFileSize, memFiles, memOp>>

chanSide == <<allowList, inbox, goroutines, outbox, delivered, handlerLog>>

cmdSide == <<toolTimeout, proc>>

pollSide == <<notifiers, notified, ticker>>

termSide == <<termSessions, termCount, termReturned>>

guardSide == <<guard, guardHist>>

nodeSide == <<elements, elemList, elemMap>>

raceSide == <<threads, mu>>

sysSide == <<pollSide, termSide, guardSide, nodeSide, raceSide>>

extSide == <<provSide, memSide, patchArgs, chanSide, cmdSide, sysSide>>

ioSide == <<fsSide, llmSide, routerSide, extSide>>

turnSide == <<turns, toolLog, turnLog, respLog, keyHist>>

sessionSide == <<sessCfg, storeVars, turnSide>>

histVars == <<lastOp, removed, touched, activity, returnedFor, appended>>

vars == <<sessCfg, storeVars, now, turnSide, toolSide, ioSide, histVars>>

None == <<>>

\* No Chat call is in progress.
NoChat ==
    /\ chat = None
    /\ sent = <<>>

\* No streamed response is being read and no request has been built.
NoProv ==
    /\ sse = None
    /\ built = None

\* A disabled memory manager.
NoMem ==
    /\ memoryDir = ""
    /\ maxFileSize = 0
    /\ memFiles = <<>>
    /\ memOp = None

\* No channel adapter is running.
NoChan ==
    /\ allowList = <<>>
    /\ inbox = <<>>
    /\ goroutines = <<>>
    /\ outbox = <<>>
    /\ delivered = <<>>
    /\ handlerLog = <<>>

\* No command is running.
NoCmd ==
    /\ toolTimeout = 0
    /\ proc = None

\* No notifier is registered and no call waits for a confirmation.
NoPoll ==
    /\ notifiers = 0
    /\ notified = <<>>
    /\ ticker = <<>>

\* A terminal tool that has run nothing.
NoTerm ==
    /\ termSessions = <<>>
    /\ termCount = 0
    /\ termReturned = {}

\* No memory guard is running.
NoGuard ==
    /\ guard = None
    /\ guardHist = None

\* The element view of the session store is not in use.
NoNodes ==
    /\ elements = <<>>
    /\ elemList = <<>>
    /\ elemMap = <<>>

\* No goroutine is inside a session operation.
NoRace ==
    /\ threads = <<>>
    /\ mu = None

NoSys ==
    /\ NoPoll
    /\ NoTerm
    /\ NoGuard
    /\ NoNodes
    /\ NoRace

NoExt ==
    /\ NoProv
    /\ NoMem
    /\ patchArgs = None
    /\ NoChan
    /\ NoCmd
    /\ NoSys

\* A router without agents, and none to register.
NoRouter ==
    /\ cfgAgents = {}
    /\ agents = <<>>
    /\ defaultAgent = ""
    /\ routed = None
    /\ defaultsSeen = {}

(***************************************************************************)
(* Bounds of the model.                                                    *)
(***************************************************************************)
StoreMaxTime == 1       \* SpecStore: the clock runs 0..StoreMaxTime
MaxMessagesCfg == 2     \* SpecMsg: max_messages is configured in 0..MaxMessagesCfg
MaxAppends == 3         \* SpecMsg: appends to one Session between two Clears
IdleMaxTime == 3        \* SpecIdle: the clock runs 0..IdleMaxTime
MaxIdleCfg == 1         \* SpecIdle: idle_timeout is configured in 0..MaxIdleCfg
MaxSessionsCfg == 3     \* max_sessions is configured in 0..MaxSessionsCfg

(***************************************************************************)
(* Sequence helpers.                                                       *)
(***************************************************************************)
Range(s) == {s[i] : i \in DOMAIN s}

RemoveAt(s, i) == SubSeq(s, 1, i - 1) \o SubSeq(s, i + 1, Len(s))

IndexOf(s, x) == CHOOSE i \in DOMAIN s : s[i] = x

Without(s, x) == IF x \in Range(s) THEN RemoveAt(s, IndexOf(s, x)) ELSE s

Restrict(f, S) == [x \in (DOMAIN f) \cap S |-> f[x]]

(***************************************************************************)
(* session.go                                                              *)
(***************************************************************************)
\* makeKey: channel + ":" + userID + ":" + agentID
makeKey(userID, channel, agentID) ==
    channel \o <<":">> \o userID \o <<":">> \o agentID

\* A reference to a Session object: the key it was created under and the
\* number of Session objects of that key that were still referenced when it
\* was allocated (an evicted Session lives on while a turn holds it).
NewRef(key, h) ==
    LET n == CHOOSE i \in 0..Cardinality(DOMAIN h) :
                 /\ <<key, i>> \notin DOMAIN h
                 /\ \A j \in 0..(i - 1) : <<key, j>> \in DOMAIN h
    IN  <<key, n>>

\* The Session objects the store references, and those a running turn holds
\* in its local variable sess.
Live(sess) == {sess[k] : k \in DOMAIN sess}

Held == {turns[t].sess : t \in DOMAIN turns} \ {None}

\* A slip evictLRU could have: taking lruList.Front() for lruList.Back().
evictLRUFront(list) == IF list = <<>> THEN <<>> ELSE Tail(list)

\* evictLRU: the list without its back element (whose map entry is deleted).
evictLRU(list) == IF list = <<>> THEN <<>> ELSE SubSeq(list, 1, Len(list) - 1)

\* list.MoveToFront
MoveToFront(list, key) == <<key>> \o Without(list, key)

\* A slip GetOrCreate could have: it evicts one session too early.
keptOnCreateOneEarly ==
    IF Cardinality(DOMAIN sessions) + 1 >= maxSessions
    THEN evictLRU(lruList) ELSE lruList

\* GetOrCreate: the list after the eviction of its miss path
\* (if len(m.sessions) >= m.maxSessions { m.evictLRU() }).
keptOnCreate ==
    IF Cardinality(DOMAIN sessions) >= maxSessions THEN evictLRU(lruList) ELSE lruList

\* GetOrCreate: the *Session it returns.
GetOrCreateRet(userID, channel, agentID) ==
    LET key == makeKey(userID, channel, agentID)
    IN  IF key \in DOMAIN sessions
        THEN sessions[key]
        ELSE NewRef(key, Restrict(heap, Live(Restrict(sessions, Range(keptOnCreate)))
                                        \cup Held))

\* A slip GetOrCreate could have: a hit hands the session back emptied.
GetOrCreateResetsOnHit(userID, channel, agentID) ==
    LET key == makeKey(userID, channel, agentID)
        s == GetOrCreateRet(userID, channel, agentID)
    IN  IF key \in DOMAIN sessions
        THEN /\ lruList' = MoveToFront(lruList, key)
             /\ heap' = [heap EXCEPT ![s].LastActivity = now,
                                  ![s].Messages = <<>>]
             /\ sessions' = sessions
        ELSE LET kept == keptOnCreate
                 keptSess == Restrict(sessions, Range(kept))
                 keptRefs == (Live(keptSess) \cup Held) \cap DOMAIN heap
                 session == [ID |-> key, UserID |-> userID, Channel |-> channel,
                             AgentID |-> agentID, Messages |-> <<>>,
                             LastActivity |-> now]
             IN  /\ lruList' = <<key>> \o kept
                 /\ sessions' = [k \in DOMAIN keptSess \cup {key} |->
                                    IF k = key THEN s ELSE keptSess[k]]
                 /\ heap' = [r \in keptRefs \cup {s} |->
                                    IF r = s THEN session ELSE heap[r]]

\* GetOrCreate(userID, channel, agentID)
GetOrCreate(userID, channel, agentID) ==
    LET key == makeKey(userID, channel, agentID)
        s == GetOrCreateRet(userID, channel, agentID)
    IN  IF key \in DOMAIN sessions
        THEN /\ lruList' = MoveToFront(lruList, key)
             /\ heap' = [heap EXCEPT ![s].LastActivity = now]
             /\ sessions' = sessions
        ELSE LET kept == keptOnCreate
                 keptSess == Restrict(sessions, Range(kept))
                 keptRefs == (Live(keptSess) \cup Held) \cap DOMAIN heap
                 session == [ID |-> key, UserID |-> userID, Channel |-> channel,
                             AgentID |-> agentID, Messages |-> <<>>,
                             LastActivity |-> now]
             IN  /\ lruList' = <<key>> \o kept
                 /\ sessions' = [k \in DOMAIN keptSess \cup {key} |->
                                    IF k = key THEN s ELSE keptSess[k]]
                 /\ heap' = [r \in keptRefs \cup {s} |->
                                    IF r = s THEN session ELSE heap[r]]

\* Get(userID, channel, agentID): moves the element to the front; it does not
\* write LastActivity.
Get(userID, channel, agentID) ==
    LET key == makeKey(userID, channel, agentID)
    IN  /\ lruList' = IF key \in DOMAIN sessions
                      THEN MoveToFront(lruList, key) ELSE lruList
        /\ UNCHANGED <<sessions, heap>>

\* A slip the limit could have: keeping the oldest messages.
limitMessagesKeepsOldest(msgs) ==
    IF Len(msgs) > maxMessages
    THEN SubSeq(msgs, 1, maxMessages)
    ELSE msgs

\* A slip the limit could have: keeping one message too many.
limitMessagesOffByOne(msgs) ==
    IF Len(msgs) > maxMessages
    THEN SubSeq(msgs, Len(msgs) - maxMessages, Len(msgs))
    ELSE msgs

\* The message limit of AddMessage and AddToolCallMessage:
\* if len(Messages) > maxMessages { Messages = Messages[len-maxMessages:] }
limitMessages(msgs) ==
    IF Len(msgs) > maxMessages
    THEN SubSeq(msgs, Len(msgs) - maxMessages + 1, Len(msgs))
    ELSE msgs

\* AddMessage(session, role, content). Message.Timestamp is not read by any
\* operation and is left out of the record.
AddMessage(session, role, content) ==
    LET msg == [Role |-> role, Content |-> content, ToolCalls |-> <<>>]
    IN  /\ heap' = [heap EXCEPT ![session].Messages = limitMessages(Append(@, msg)),
                                ![session].LastActivity = now]
        /\ UNCHANGED <<sessions, lruList>>

\* AddToolCallMessage(session, role, content, toolCalls)
AddToolCallMessage(session, role, content, toolCalls) ==
    LET msg == [Role |-> role, Content |-> content, ToolCalls |-> toolCalls]
    IN  /\ heap' = [heap EXCEPT ![session].Messages = limitMessages(Append(@, msg)),
                                ![session].LastActivity = now]
        /\ UNCHANGED <<sessions, lruList>>

\* GetMessages(session): a copy of the list
GetMessages(session) == heap[session].Messages

\* Clear(session)
Clear(session) ==
    /\ heap' = [heap EXCEPT ![session].Messages = <<>>,
                            ![session].LastActivity = now]
    /\ UNCHANGED <<sessions, lruList>>

\* The store after the keys of `gone` were removed from the map and the list;
\* a Session nobody references any more is collected.
dropKeys(gone) ==
    LET keptSess == Restrict(sessions, DOMAIN sessions \ gone)
    IN  /\ sessions' = keptSess
        /\ lruList' = SelectSeq(lruList, LAMBDA k : k \notin gone)
        /\ heap' = Restrict(heap, Live(keptSess) \cup Held)

\* Delete(userID, channel, agentID): no-op for an unknown key.
Delete(userID, channel, agentID) ==
    dropKeys({makeKey(userID, channel, agentID)} \cap DOMAIN sessions)

\* The loop of cleanup as the design text describes it: the traversal from
\* the back ends at the first element that is not stale.
RECURSIVE cleanupScanStopAtFresh(_)
cleanupScanStopAtFresh(i) ==
    IF i = 0 THEN {}
    ELSE IF now - heap[sessions[lruList[i]]].LastActivity > idleTimeout
         THEN {lruList[i]} \cup cleanupScanStopAtFresh(i - 1)
         ELSE {}

\* The loop of cleanup: from the back of the list to its front, every element
\* with now.Sub(LastActivity) > idleTimeout is collected. i is the position of
\* elem, 0 when elem == nil.
RECURSIVE cleanupScan(_)
cleanupScan(i) ==
    IF i = 0 THEN {}
    ELSE (IF now - heap[sessions[lruList[i]]].LastActivity > idleTimeout
          THEN {lruList[i]} ELSE {}) \cup cleanupScan(i - 1)

\* cleanup(): one tick of cleanupLoop
cleanup == dropKeys(cleanupScan(Len(lruList)))

\* Time passes, up to the bound of the specification.
Tick(limit) ==
    /\ now < limit
    /\ now' = now + 1
    /\ lastOp' = "Tick"
    /\ removed' = {}
    /\ UNCHANGED <<toolSide, ioSide, sessCfg, storeVars, turnSide, touched, activity, returnedFor, appended>>

(***************************************************************************)
(* History variables. Each is written after the operation, from the        *)
(* program's variables before and after it.                                *)
(***************************************************************************)
\* The operation's name and the keys it removed from the store.
HistOp(name) ==
    /\ lastOp' = name
    /\ removed' = DOMAIN sessions \ DOMAIN sessions'

\* A touch is a GetOrCreate or a Get of a key (None: the operation touches
\* no key); removed keys leave the order.
HistTouch(key) ==
    LET rest == SelectSeq(touched, LAMBDA k : k \in DOMAIN sessions' /\ k # key)
    IN  touched' = IF key \in DOMAIN sessions' THEN <<key>> \o rest ELSE rest

\* Activity is a GetOrCreate, an append or a Clear on the Session (None: no
\* activity).
HistActivity(session) ==
    activity' = [r \in DOMAIN heap' |-> IF r = session THEN now ELSE activity[r]]

\* GetOrCreate(tuple) returned the Session.
HistReturned(session, tuple) ==
    returnedFor' = [r \in DOMAIN heap' |->
        IF r = session
        THEN (IF r \in DOMAIN heap THEN returnedFor[r] ELSE {}) \cup {tuple}
        ELSE returnedFor[r]]

\* The messages appended to the Session since it was created or cleared
\* (msg = None: a Clear; session = None: no append).
HistAppended(session, msg) ==
    appended' = [r \in DOMAIN heap' |->
        LET old == IF r \in DOMAIN heap THEN appended[r] ELSE <<>>
        IN  IF r # session THEN old
            ELSE IF msg = None THEN <<>> ELSE Append(old, msg)]

(***************************************************************************)
(* SpecStore: the map and the LRU list of the session store under any      *)
(* interleaving of GetOrCreate, Get, AddMessage, Delete and cleanup ticks. *)
(* Identifiers may contain ':' (agent ids are configuration keys, sender   *)
(* ids come from the channel). max_sessions is any configured value: the   *)
(* configuration is not validated (config.go validate). The message lists  *)
(* are studied in SpecMsg; here max_messages = 0, so that an append only   *)
(* renews LastActivity.                                                    *)
(***************************************************************************)
StoreTuples ==
    { <<<<"w">>, <<"u">>, <<"d">>>>,
      <<<<"w">>, <<"u", ":", "x">>, <<"d">>>>,
      <<<<"w">>, <<"u">>, <<"x", ":", "d">>>>,
      <<<<"w">>, <<"v">>, <<"d">>>>,
      <<<<"t">>, <<"u">>, <<"d">>>> }

\* No tool call, no confirmation request, an empty file system: the state
\* of the tool layer in the specifications of the session store.
NoTools ==
    /\ terminalEnabled = FALSE
    /\ confirmDangerous = TRUE
    /\ unattendedMode = FALSE
    /\ alwaysAllow = {}
    /\ calls = <<>>
    /\ requests = <<>>
    /\ nextID = 0
    /\ answered = {}
    /\ fs = <<>>
    /\ fsOp = None

InitHist ==
    /\ lastOp = "NewManager"
    /\ removed = {}
    /\ touched = <<>>
    /\ activity = <<>>
    /\ returnedFor = <<>>
    /\ appended = <<>>

InitStore ==
    /\ maxMessages = 0
    /\ maxSessions \in 0..MaxSessionsCfg
    /\ idleTimeout = 0
    /\ sessions = <<>>
    /\ lruList = <<>>
    /\ heap = <<>>
    /\ now = 0
    /\ turns = <<>>
    /\ toolLog = <<>>
    /\ turnLog = <<>>
    /\ respLog = <<>>
    /\ keyHist = None
    /\ InitHist
    /\ NoExt
    /\ NoTools
    /\ NoChat
    /\ NoRouter

StoreGetOrCreate ==
    \E t \in StoreTuples :
        /\ GetOrCreate(t[2], t[1], t[3])
        /\ HistOp("GetOrCreate")
        /\ HistTouch(makeKey(t[2], t[1], t[3]))
        /\ HistReturned(GetOrCreateRet(t[2], t[1], t[3]), t)
        /\ UNCHANGED <<toolSide, ioSide, sessCfg, now, turnSide, activity, appended>>

StoreGet ==
    \E t \in StoreTuples :
        /\ Get(t[2], t[1], t[3])
        /\ HistOp("Get")
        /\ HistTouch(makeKey(t[2], t[1], t[3]))
        /\ UNCHANGED <<toolSide, ioSide, sessCfg, now, turnSide, activity, returnedFor, appended>>

StoreAddMessage ==
    \E s \in DOMAIN heap :
        /\ AddMessage(s, "user", <<"m">>)
        /\ HistOp("AddMessage")
        /\ UNCHANGED <<toolSide, ioSide, sessCfg, now, turnSide, touched, activity, returnedFor, appended>>

StoreDelete ==
    \E t \in StoreTuples :
        /\ Delete(t[2], t[1], t[3])
        /\ HistOp("Delete")
        /\ HistTouch(None)
        /\ HistReturned(None, t)
        /\ UNCHANGED <<toolSide, ioSide, sessCfg, now, turnSide, activity, appended>>

StoreTick == Tick(StoreMaxTime)

StoreCleanup ==
    /\ cleanup
    /\ HistOp("cleanup")
    /\ HistTouch(None)
    /\ HistReturned(None, None)
    /\ UNCHANGED <<toolSide, ioSide, sessCfg, now, turnSide, activity, appended>>

NextStore ==
    \/ StoreGetOrCreate
    \/ StoreGet
    \/ StoreAddMessage
    \/ StoreDelete
    \/ StoreCleanup
    \/ StoreTick

SpecStore == InitStore /\ [][NextStore]_vars

\* The keys of the scenario of TestLRU (spec S2): A, B, C, D.
KeyA == makeKey(<<"u">>, <<"w">>, <<"d">>)
KeyB == makeKey(<<"v">>, <<"w">>, <<"d">>)
KeyC == makeKey(<<"u">>, <<"t">>, <<"d">>)
KeyD == makeKey(<<"u">>, <<"w">>, <<"x", ":", "d">>)

\* C5: the store never holds more than max_sessions sessions, for any
\* configured max_sessions. Violated when max_sessions is 0: evictLRU finds
\* an empty list and the new session is inserted all the same.
C5_AtMostMaxSessions == Cardinality(DOMAIN sessions) <= maxSessions

C8_DistinctTuplesDistinctSessions ==
    \A r \in DOMAIN returnedFor : Cardinality(returnedFor[r]) <= 1

(***************************************************************************)
(* SpecMsg: the message lists of two sessions under any interleaving of    *)
(* GetOrCreate, AddMessage, AddToolCallMessage and Clear, for every        *)
(* configured max_messages in 0..MaxMessagesCfg. Each operation holds the  *)
(* session's mutex from its first to its last line, so concurrent calls    *)
(* are interleavings of whole operations. A negative max_messages makes    *)
(* GetOrCreate panic (make with a negative capacity): no session exists.   *)
(***************************************************************************)
MsgTuples ==
    { <<<<"w">>, <<"u">>, <<"d">>>>,
      <<<<"w">>, <<"v">>, <<"d">>>> }

MsgToolCalls == <<[ID |-> "c1", Name |-> "read_file", Arguments |-> "x"]>>

UserMsg == [Role |-> "user", Content |-> <<"a">>, ToolCalls |-> <<>>]

ToolCallMsg == [Role |-> "assistant", Content |-> <<>>, ToolCalls |-> MsgToolCalls]

InitMsg ==
    /\ maxMessages \in 0..MaxMessagesCfg
    /\ maxSessions \in 1..2
    /\ idleTimeout = 0
    /\ sessions = <<>>
    /\ lruList = <<>>
    /\ heap = <<>>
    /\ now = 0
    /\ turns = <<>>
    /\ toolLog = <<>>
    /\ turnLog = <<>>
    /\ respLog = <<>>
    /\ keyHist = None
    /\ InitHist
    /\ NoExt
    /\ NoTools
    /\ NoChat
    /\ NoRouter

MsgGetOrCreate ==
    \E t \in MsgTuples :
        /\ GetOrCreate(t[2], t[1], t[3])
        /\ HistOp("GetOrCreate")
        /\ HistTouch(makeKey(t[2], t[1], t[3]))
        /\ HistAppended(None, None)
        /\ UNCHANGED <<toolSide, ioSide, sessCfg, now, turnSide, activity, returnedFor>>

MsgAddMessage ==
    \E s \in DOMAIN heap :
        /\ Len(appended[s]) < MaxAppends
        /\ AddMessage(s, "user", <<"a">>)
        /\ HistOp("AddMessage")
        /\ HistAppended(s, UserMsg)
        /\ UNCHANGED <<toolSide, ioSide, sessCfg, now, turnSide, touched, activity, returnedFor>>

MsgAddToolCallMessage ==
    \E s \in DOMAIN heap :
        /\ Len(appended[s]) < MaxAppends
        /\ AddToolCallMessage(s, "assistant", <<>>, MsgToolCalls)
        /\ HistOp("AddToolCallMessage")
        /\ HistAppended(s, ToolCallMsg)
        /\ UNCHANGED <<toolSide, ioSide, sessCfg, now, turnSide, touched, activity, returnedFor>>

MsgClear ==
    \E s \in DOMAIN heap :
        /\ Clear(s)
        /\ HistOp("Clear")
        /\ HistAppended(s, None)
        /\ UNCHANGED <<toolSide, ioSide, sessCfg, now, turnSide, touched, activity, returnedFor>>

NextMsg ==
    \/ MsgGetOrCreate
    \/ MsgAddMessage
    \/ MsgAddToolCallMessage
    \/ MsgClear

SpecMsg == InitMsg /\ [][NextMsg]_vars

\* C18: a GetOrCreate of a key the store holds (a GetOrCreate of that key
\* came before, and no eviction, Delete or cleanup of the key since) returns
\* the same Session object, leaves its message list as it was and leaves
\* the set of sessions, hence their number, unchanged.
C18_SecondGetOrCreateIsSameSession ==
    [][(lastOp' = "GetOrCreate" /\ touched'[1] \in DOMAIN sessions)
          => LET key == touched'[1]
             IN  /\ sessions'[key] = sessions[key]
                 /\ sessions[key] \in DOMAIN heap'
                 /\ heap'[sessions[key]].Messages = heap[sessions[key]].Messages
                 /\ DOMAIN sessions' = DOMAIN sessions
                 /\ Cardinality(DOMAIN sessions') = Cardinality(DOMAIN sessions)]_vars

\* C18: a GetOrCreate has just returned a session that holds messages, with
\* a second session in the store.
C18_Witness ==
    /\ lastOp = "GetOrCreate"
    /\ removed = {}
    /\ Cardinality(DOMAIN sessions) = 2
    /\ Len(heap[sessions[touched[1]]].Messages) = 2

\* C4: every session holds at most max_messages messages, in every state
\* reached by AddMessage, AddToolCallMessage and Clear calls.
C4_AtMostMaxMessages ==
    \A r \in DOMAIN heap : Len(heap[r].Messages) <= maxMessages

\* C4: an append to a session that was full has just returned.
C4_Witness ==
    /\ maxMessages >= 1
    /\ lastOp \in {"AddMessage", "AddToolCallMessage"}
    /\ \E r \in DOMAIN heap :
          /\ Len(appended[r]) > maxMessages
          /\ Len(heap[r].Messages) = maxMessages

\* C20: a session holds the last min(k, max_messages) of the k messages
\* appended to it since it was created or cleared, in append order; and an
\* append to a list of exactly max_messages (>= 1) messages drops its head
\* and nothing else.
C20_OverflowDropsOldest ==
    /\ [](\A r \in DOMAIN heap :
            LET k == Len(appended[r])
                n == IF k < maxMessages THEN k ELSE maxMessages
            IN  heap[r].Messages = SubSeq(appended[r], k - n + 1, k))
    /\ [][\A r \in DOMAIN heap \cap DOMAIN heap' :
            ( /\ maxMessages >= 1
              /\ Len(heap[r].Messages) = maxMessages
              /\ Len(appended'[r]) = Len(appended[r]) + 1 )
                => heap'[r].Messages =
                      Append(Tail(heap[r].Messages),
                             appended'[r][Len(appended'[r])])]_vars

\* C20: a session of max_messages = 2 has had three messages appended, a
\* tool-call message first, and holds the two user messages after it.
C20_Witness ==
    /\ maxMessages = 2
    /\ \E r \in DOMAIN heap :
          /\ appended[r] = <<ToolCallMsg, UserMsg, UserMsg>>
          /\ heap[r].Messages = <<UserMsg, UserMsg>>

(***************************************************************************)
(* SpecIdle: the idle cleanup. Two sessions, every operation that renews   *)
(* LastActivity or moves a list element, the clock, and cleanup ticks at   *)
(* any instant. idle_timeout is a whole number of clock units. cleanup     *)
(* reads LastActivity under the manager's mutex while AddMessage and Clear *)
(* write it under the session's: the racing read returns the old or the    *)
(* new instant, which is the cleanup running before or after the write.    *)
(***************************************************************************)
InitIdle ==
    /\ maxMessages = 0
    /\ maxSessions = 2
    /\ idleTimeout \in 0..MaxIdleCfg
    /\ sessions = <<>>
    /\ lruList = <<>>
    /\ heap = <<>>
    /\ now = 0
    /\ turns = <<>>
    /\ toolLog = <<>>
    /\ turnLog = <<>>
    /\ respLog = <<>>
    /\ keyHist = None
    /\ InitHist
    /\ NoExt
    /\ NoTools
    /\ NoChat
    /\ NoRouter

IdleGetOrCreate ==
    \E t \in MsgTuples :
        /\ GetOrCreate(t[2], t[1], t[3])
        /\ HistOp("GetOrCreate")
        /\ HistActivity(GetOrCreateRet(t[2], t[1], t[3]))
        /\ UNCHANGED <<toolSide, ioSide, sessCfg, now, turnSide, touched, returnedFor, appended>>

IdleGet ==
    \E t \in MsgTuples :
        /\ Get(t[2], t[1], t[3])
        /\ HistOp("Get")
        /\ UNCHANGED <<toolSide, ioSide, sessCfg, now, turnSide, touched, activity, returnedFor, appended>>

IdleAddMessage ==
    \E s \in DOMAIN heap :
        /\ AddMessage(s, "user", <<"a">>)
        /\ HistOp("AddMessage")
        /\ HistActivity(s)
        /\ UNCHANGED <<toolSide, ioSide, sessCfg, now, turnSide, touched, returnedFor, appended>>

IdleAddToolCallMessage ==
    \E s \in DOMAIN heap :
        /\ AddToolCallMessage(s, "assistant", <<>>, MsgToolCalls)
        /\ HistOp("AddToolCallMessage")
        /\ HistActivity(s)
        /\ UNCHANGED <<toolSide, ioSide, sessCfg, now, turnSide, touched, returnedFor, appended>>

IdleClear ==
    \E s \in DOMAIN heap :
        /\ Clear(s)
        /\ HistOp("Clear")
        /\ HistActivity(s)
        /\ UNCHANGED <<toolSide, ioSide, sessCfg, now, turnSide, touched, returnedFor, appended>>

IdleDelete ==
    \E t \in MsgTuples :
        /\ Delete(t[2], t[1], t[3])
        /\ HistOp("Delete")
        /\ HistActivity(None)
        /\ UNCHANGED <<toolSide, ioSide, sessCfg, now, turnSide, touched, returnedFor, appended>>

IdleCleanup ==
    /\ cleanup
    /\ HistOp("cleanup")
    /\ HistActivity(None)
    /\ UNCHANGED <<toolSide, ioSide, sessCfg, now, turnSide, touched, returnedFor, appended>>

IdleTick == Tick(IdleMaxTime)

NextIdle ==
    \/ IdleGetOrCreate
    \/ IdleGet
    \/ IdleAddMessage
    \/ IdleAddToolCallMessage
    \/ IdleClear
    \/ IdleDelete
    \/ IdleCleanup
    \/ IdleTick

SpecIdle == InitIdle /\ [][NextIdle]_vars

\* C9: a cleanup tick removes exactly the sessions whose last activity
\* (GetOrCreate, append or Clear) lies more than idle_timeout before it.
C9_CleanupRemovesExactlyIdle ==
    [][ lastOp' = "cleanup" =>
            DOMAIN sessions' =
                {k \in DOMAIN sessions :
                    ~(now - activity[sessions[k]] > idleTimeout)} ]_vars

\* C9: a cleanup tick has removed an idle session and kept an active one.
C9_Witness ==
    /\ lastOp = "cleanup"
    /\ removed # {}
    /\ DOMAIN sessions # {}

\* The session at position i of the list is idle-expired.
IdleExpired(i) == now - heap[sessions[lruList[i]]].LastActivity > idleTimeout

\* C38: the list is ordered by last activity: from the back toward the
\* front, once a session is not idle-expired no session nearer the front
\* is; so a cleanup that stops at the first session that is not stale
\* removes the sessions the scan of the whole list removes.
C38_ListOrderedByActivity ==
    /\ \A i, j \in DOMAIN lruList :
          (i < j /\ ~IdleExpired(j)) => ~IdleExpired(i)
    /\ cleanupScanStopAtFresh(Len(lruList)) = cleanupScan(Len(lruList))

(***************************************************************************)
(* Strings. strings.ToLower, strings.HasPrefix and strings.Contains on     *)
(* sequences of characters.                                                *)
(***************************************************************************)
UpperChars ==
    <<"A", "B", "C", "D", "E", "F", "G", "H", "I", "J", "K", "L", "M",
      "N", "O", "P", "Q", "R", "S", "T", "U", "V", "W", "X", "Y", "Z">>

LowerChars ==
    <<"a", "b", "c", "d", "e", "f", "g", "h", "i", "j", "k", "l", "m",
      "n", "o", "p", "q", "r", "s", "t", "u", "v", "w", "x", "y", "z">>

ToLowerChar(c) ==
    IF \E i \in 1..26 : UpperChars[i] = c
    THEN LowerChars[CHOOSE i \in 1..26 : UpperChars[i] = c]
    ELSE c

ToLower(s) == [i \in 1..Len(s) |-> ToLowerChar(s[i])]

HasPrefix(s, prefix) ==
    /\ Len(prefix) <= Len(s)
    /\ SubSeq(s, 1, Len(prefix)) = prefix

Contains(s, substr) ==
    \E i \in 0..(Len(s) - Len(substr)) : SubSeq(s, i + 1, i + Len(substr)) = substr

\* All strings over the alphabet of length at most n.
RECURSIVE StringsUpTo(_, _)
StringsUpTo(alphabet, n) ==
    IF n = 0 THEN {<<>>}
    ELSE LET shorter == StringsUpTo(alphabet, n - 1)
         IN  shorter \cup {Append(s, c) : s \in shorter, c \in alphabet}

(***************************************************************************)
(* The command guards of execute_command (internal/tools/manager.go).      *)
(***************************************************************************)
\* The character U+0060, which a string of this module cannot hold.
Backquote == "BQ"

\* hasCommandInjection: the patterns searched outside quotes.
injectionPatterns ==
    { <<"$", "(">>,
    <<"$", "{">>,
    <<Backquote>>,
    <<";">>,
    <<"&", "&">>,
    <<"|", "|">>,
    <<"|">>,
    <<"\n">>,
    <<"\r">>,
    <<">", ">">>,
    <<"<", "<">> }

\* isDangerousCommand: the dangerous patterns.
dangerousPatterns ==
    { <<"r", "m", " ", "-", "r", "f">>,
    <<"r", "m", " ", "-", "r">>,
    <<"r", "m", " ", "-", "f">>,
    <<"d", "e", "l", " ", "/">>,
    <<"f", "o", "r", "m", "a", "t">>,
    <<"f", "d", "i", "s", "k">>,
    <<"m", "k", "f", "s">>,
    <<"d", "d", " ", "i", "f", "=">>,
    <<"c", "h", "m", "o", "d", " ", "7", "7", "7">>,
    <<"c", "h", "o", "w", "n", " ", "-", "R">>,
    <<">", " ", "/", "d", "e", "v", "/">>,
    <<":", "(", ")", "{", " ", ":", "|", ":", "&", " ", "}", ";", ":">>,
    <<"w", "g", "e", "t", " ", "|", " ", "s", "h">>,
    <<"c", "u", "r", "l", " ", "|", " ", "s", "h">>,
    <<"c", "u", "r", "l", " ", "|", " ", "b", "a", "s", "h">> }

\* The configured block list (the default of config.go).
blockedCommands ==
    << <<"r", "e", "b", "o", "o", "t">>,
    <<"s", "h", "u", "t", "d", "o", "w", "n">>,
    <<"i", "n", "i", "t">>,
    <<"p", "o", "w", "e", "r", "o", "f", "f">>,
    <<"h", "a", "l", "t">> >>

\* confirmation.IsDangerousOperation: the dangerous patterns.
gateDangerousPatterns ==
    { <<"r", "m", " ", "-", "r", "f">>,
    <<"r", "m", " ", "-", "r">>,
    <<"r", "m", " ", "-", "f">>,
    <<"d", "e", "l", " ", "/">>,
    <<"f", "o", "r", "m", "a", "t">>,
    <<"f", "d", "i", "s", "k">>,
    <<"m", "k", "f", "s">>,
    <<"d", "d", " ", "i", "f", "=">>,
    <<"c", "h", "m", "o", "d", " ", "7", "7", "7">>,
    <<"c", "h", "o", "w", "n", " ", "-", "R">>,
    <<">", " ", "/", "d", "e", "v", "/">>,
    <<":", "(", ")", "{", " ", ":", "|", ":", "&", " ", "}", ";", ":">>,
    <<"w", "g", "e", "t", " ", "|", " ", "s", "h">>,
    <<"c", "u", "r", "l", " ", "|", " ", "s", "h">>,
    <<"c", "u", "r", "l", " ", "|", " ", "b", "a", "s", "h">>,
    <<"a", "p", "t", "-", "g", "e", "t", " ", "r", "e", "m", "o", "v", "e">>,
    <<"a", "p", "t", "-", "g", "e", "t", " ", "p", "u", "r", "g", "e">>,
    <<"y", "u", "m", " ", "r", "e", "m", "o", "v", "e">>,
    <<"d", "n", "f", " ", "r", "e", "m", "o", "v", "e">>,
    <<"p", "a", "c", "m", "a", "n", " ", "-", "R">>,
    <<"p", "i", "p", " ", "u", "n", "i", "n", "s", "t", "a", "l", "l">>,
    <<"n", "p", "m", " ", "u", "n", "i", "n", "s", "t", "a", "l", "l">>,
    <<"g", "i", "t", " ", "p", "u", "s", "h", " ", "-", "-", "f", "o", "r", "c", "e">>,
    <<"g", "i", "t", " ", "r", "e", "s", "e", "t", " ", "-", "-", "h", "a", "r", "d">>,
    <<"D", "R", "O", "P", " ", "T", "A", "B", "L", "E">>,
    <<"D", "R", "O", "P", " ", "D", "A", "T", "A", "B", "A", "S", "E">>,
    <<"T", "R", "U", "N", "C", "A", "T", "E">>,
    <<"D", "E", "L", "E", "T", "E", " ", "F", "R", "O", "M">> }

isDangerousCommand(cmd) ==
    \E pattern \in dangerousPatterns :
        Contains(ToLower(cmd), ToLower(pattern))

\* The loop of hasCommandInjection from character i on: one flag `quoted`
\* that either quote character toggles.
RECURSIVE injectionScan(_, _, _)
injectionScan(cmd, i, quoted) ==
    IF i > Len(cmd) THEN FALSE
    ELSE LET q == IF cmd[i] \in {"'", "\""} THEN ~quoted ELSE quoted
         IN  IF ~q /\ \E pattern \in injectionPatterns :
                          HasPrefix(SubSeq(cmd, i, Len(cmd)), pattern)
             THEN TRUE
             ELSE injectionScan(cmd, i + 1, q)

hasCommandInjection(cmd) == injectionScan(cmd, 1, FALSE)

\* ExecuteCommandTool.Execute: the first configured entry the lowercased
\* command contains ("" when there is none).
RECURSIVE firstBlocked(_, _)
firstBlocked(cmd, i) ==
    IF i > Len(blockedCommands) THEN <<>>
    ELSE IF Contains(ToLower(cmd), ToLower(blockedCommands[i]))
         THEN blockedCommands[i]
         ELSE firstBlocked(cmd, i + 1)

execNeedsConfirmation(cmd) ==
    firstBlocked(cmd, 1) # <<>> \/ isDangerousCommand(cmd)

\* args["confirm"].(bool): false when the argument is absent.
execConfirmed(args) == "confirm" \in DOMAIN args /\ args.confirm

\* What the shell run of cmd.CombinedOutput gives back.
shellResult(exit) ==
    IF exit = "ok" THEN "output" ELSE "command failed"

IdleCall ==
    [tool |-> "", command |-> <<>>, pc |-> "idle", req |-> 0, gate |-> "none",
     final |-> "", ran |-> FALSE, result |-> ""]

\* ExecuteCommandTool.Execute: whether the command reaches `sh -c`, and the
\* text the tool returns (the refusal of an unconfirmed command is the
\* message of line 538, given here by its English part).
ExecuteCommandResult(args, exit) ==
    IF "command" \notin DOMAIN args
    THEN [ran |-> FALSE, result |-> "command is required"]
    ELSE IF hasCommandInjection(args.command)
    THEN [ran |-> FALSE, result |-> "potential command injection detected"]
    ELSE IF /\ execNeedsConfirmation(args.command)
            /\ confirmDangerous /\ ~unattendedMode
            /\ ~execConfirmed(args)
    THEN [ran |-> FALSE, result |-> "set confirm=true to execute"]
    ELSE [ran |-> TRUE, result |-> shellResult(exit)]

\* ExecuteCommandTool.Execute as the tool call p.
ExecuteCommand(p, args, exit) ==
    LET r == ExecuteCommandResult(args, exit)
    IN  /\ calls' = [calls EXCEPT ![p] =
              [IdleCall EXCEPT
                  !.tool = "execute_command",
                  !.command = IF "command" \in DOMAIN args THEN args.command ELSE <<>>,
                  !.pc = "done",
                  !.ran = r.ran,
                  !.result = r.result]]
        /\ UNCHANGED <<requests, nextID>>

(***************************************************************************)
(* SpecExec: one execute_command call, for every command over a small      *)
(* alphabet with both quote characters, a separator and a redirection,     *)
(* and for two commands of the dangerous and blocked lists.                *)
(***************************************************************************)
MaxCmdLen == 4

ExecAlphabet == {"a", "'", "\"", ";", ">"}

CmdList == <<"l", "s">>

CmdMkfs == <<"m", "k", "f", "s">>

CmdHalt == <<"h", "a", "l", "t">>

ExecCommands == StringsUpTo(ExecAlphabet, MaxCmdLen) \cup {CmdMkfs, CmdHalt}

ExecArgs ==
    [command : ExecCommands] \cup [command : ExecCommands, confirm : BOOLEAN]
        \cup {[confirm |-> TRUE]}

NoSessions ==
    /\ maxMessages = 0
    /\ maxSessions = 0
    /\ idleTimeout = 0
    /\ sessions = <<>>
    /\ lruList = <<>>
    /\ heap = <<>>
    /\ turns = <<>>
    /\ toolLog = <<>>
    /\ turnLog = <<>>
    /\ respLog = <<>>
    /\ keyHist = None

\* The history of an operation of the tool layer: it removes no session.
HistTool(name) ==
    /\ lastOp' = name
    /\ removed' = {}

InitExec ==
    /\ terminalEnabled = FALSE
    /\ confirmDangerous \in BOOLEAN
    /\ unattendedMode \in BOOLEAN
    /\ alwaysAllow = {}
    /\ calls = <<IdleCall>>
    /\ requests = <<>>
    /\ nextID = 0
    /\ answered = {}
    /\ fs = <<>>
    /\ fsOp = None
    /\ NoChat
    /\ NoRouter
    /\ now = 0
    /\ NoSessions
    /\ InitHist
    /\ NoExt

ExecExecuteCommand ==
    \E args \in ExecArgs, exit \in {"ok", "failed"} :
        /\ calls[1].pc = "idle"
        /\ ExecuteCommand(1, args, exit)
        /\ HistTool("execute_command")
        /\ UNCHANGED <<toolCfg, answered, ioSide, sessionSide, now,
                       touched, activity, returnedFor, appended>>

NextExec == ExecExecuteCommand

SpecExec == InitExec /\ [][NextExec]_vars

\* The shell's quoting after the first i characters: "" outside quotes,
\* otherwise the quote character that is open.
RECURSIVE ShellQuote(_, _)
ShellQuote(cmd, i) ==
    IF i = 0 THEN ""
    ELSE LET open == ShellQuote(cmd, i - 1)
         IN  IF open = "" /\ cmd[i] \in {"'", "\""} THEN cmd[i]
             ELSE IF open = cmd[i] THEN ""
             ELSE open

ShellMetachars ==
    { <<";">>, <<"&", "&">>, <<"|", "|">>, <<"|">>, <<Backquote>>, <<"$", "(">>,
      <<"$", "{">>, <<"\n">>, <<">">>, <<"<">> }

\* A metacharacter at a position the shell reads outside quotes.
MetaOutsideQuotes(cmd) ==
    \E i \in 1..Len(cmd) :
        /\ ShellQuote(cmd, i - 1) = ""
        /\ \E m \in ShellMetachars : HasPrefix(SubSeq(cmd, i, Len(cmd)), m)

\* C2: every command execute_command hands to the shell without an approval
\* of the gate has no metacharacter outside quotes and no blocklisted
\* substring, and hasCommandInjection reports every command that has a
\* metacharacter outside quotes.
C2_NoUnquotedMetacharReachesShell ==
    \A p \in DOMAIN calls :
        calls[p].tool = "execute_command" /\ calls[p].pc = "done" =>
            /\ MetaOutsideQuotes(calls[p].command) => hasCommandInjection(calls[p].command)
            /\ calls[p].ran /\ calls[p].gate # "approved" =>
                  /\ ~MetaOutsideQuotes(calls[p].command)
                  /\ firstBlocked(calls[p].command, 1) = <<>>

(***************************************************************************)
(* The confirmation gate (package confirmation) and the terminal tool      *)
(* that calls it (package tools, TerminalTool).                            *)
(*                                                                         *)
(* A request id is conf_<UnixNano of its creation>; the model numbers the  *)
(* requests in creation order, which takes two creations to fall on        *)
(* different nanoseconds. No notifier is registered (RegisterNotifier has  *)
(* no caller); a notifier's error is logged and changes nothing.           *)
(***************************************************************************)
ConfirmTimeout == 5     \* NewConfirmationManager: timeout: 5 * time.Minute

TerminalType == <<"t", "e", "r", "m", "i", "n", "a", "l">>

containsHelper(s, substr) ==
    \E i \in 0..(Len(s) - Len(substr)) : SubSeq(s, i + 1, i + Len(substr)) = substr

contains(s, substr) ==
    /\ Len(s) >= Len(substr)
    /\ (s = substr \/ (Len(s) > 0 /\ containsHelper(s, substr)))

IsDangerousOperation(operation) ==
    \E pattern \in gateDangerousPatterns : contains(operation, pattern)

\* runCommand: the first configured entry the command contains, as written.
RECURSIVE runFirstBlocked(_, _)
runFirstBlocked(command, i) ==
    IF i > Len(blockedCommands) THEN <<>>
    ELSE IF Contains(command, blockedCommands[i])
         THEN blockedCommands[i]
         ELSE runFirstBlocked(command, i + 1)

runNeedsConfirmation(command) ==
    runFirstBlocked(command, 1) # <<>> \/ IsDangerousOperation(command)

\* RequestConfirmation without its early returns.
neverAutoApproved(opType, operation) == FALSE

\* RequestConfirmation returns approved without a request: unattended mode,
\* or the operation or its type is in the always-allow list.
autoApproved(opType, operation) ==
    \/ unattendedMode
    \/ \E allowed \in alwaysAllow : allowed = operation \/ allowed = opType

\* The tail of runCommand: the command is started with `sh -c`.
startCommand(p, command, gate, status, exit) ==
    calls' = [calls EXCEPT ![p] =
        [IdleCall EXCEPT
            !.tool = "terminal", !.command = command, !.pc = "done",
            !.req = calls[p].req, !.gate = gate, !.final = status,
            !.ran = TRUE, !.result = shellResult(exit)]]

\* runCommand returns an error without starting the command.
refuseCommand(p, command, gate, status, text) ==
    calls' = [calls EXCEPT ![p] =
        [IdleCall EXCEPT
            !.tool = "terminal", !.command = command, !.pc = "done",
            !.req = calls[p].req, !.gate = gate, !.final = status,
            !.result = text]]

\* TerminalTool.runCommand up to the point where it runs the command,
\* refuses it, or blocks in RequestConfirmation with a new pending request.
runCommand(p, command, exit) ==
    IF ~terminalEnabled
    THEN /\ refuseCommand(p, command, "none", "", "terminal is disabled in config")
         /\ UNCHANGED <<requests, nextID>>
    ELSE IF ~(runNeedsConfirmation(command) /\ confirmDangerous /\ ~unattendedMode)
    THEN /\ startCommand(p, command, "none", "", exit)
         /\ UNCHANGED <<requests, nextID>>
    ELSE IF autoApproved(TerminalType, command)
    THEN /\ startCommand(p, command, "approved", "", exit)
         /\ UNCHANGED <<requests, nextID>>
    ELSE /\ nextID' = nextID + 1
         /\ requests' = (nextID + 1 :>
                [Type |-> TerminalType, Operation |-> command,
                 ExpiresAt |-> now + ConfirmTimeout,
                 Status |-> "pending", ApprovedBy |-> ""]) @@ requests
         /\ calls' = [calls EXCEPT ![p] =
                [IdleCall EXCEPT
                    !.tool = "terminal", !.command = command,
                    !.pc = "wait", !.req = nextID + 1]]

\* One tick of waitForResponse that ends the wait: the request is gone, or
\* it has expired (looked at first), or its status is no longer pending.
waitForResponse(p) ==
    LET id == calls[p].req
    IN  /\ calls[p].pc = "wait"
        /\ IF id \notin DOMAIN requests
           THEN /\ calls' = [calls EXCEPT ![p].pc = "ret", ![p].gate = "not found"]
                /\ UNCHANGED requests
           ELSE IF now > requests[id].ExpiresAt
           THEN /\ requests' = [requests EXCEPT ![id].Status = "timeout"]
                /\ calls' = [calls EXCEPT ![p].pc = "ret", ![p].gate = "timeout"]
           ELSE /\ requests[id].Status # "pending"
                /\ calls' = [calls EXCEPT ![p].pc = "ret",
                        ![p].gate = IF requests[id].Status = "approved"
                                    THEN "approved" ELSE "rejected"]
                /\ UNCHANGED requests
        /\ UNCHANGED nextID

\* RequestConfirmation returns (its deferred delete runs) and runCommand
\* goes on with the gate's answer.
runCommandResume(p, exit) ==
    LET id == calls[p].req
        status == IF id \in DOMAIN requests THEN requests[id].Status ELSE ""
    IN  /\ calls[p].pc = "ret"
        /\ requests' = [i \in DOMAIN requests \ {id} |-> requests[i]]
        /\ IF calls[p].gate = "timeout"
           THEN refuseCommand(p, calls[p].command, "timeout", status,
                              "confirmation failed: confirmation timeout")
           ELSE IF calls[p].gate = "not found"
           THEN refuseCommand(p, calls[p].command, "not found", status,
                              "confirmation failed: request not found")
           ELSE IF calls[p].gate = "rejected"
           THEN refuseCommand(p, calls[p].command, "rejected", status,
                              "operation rejected by user")
           ELSE startCommand(p, calls[p].command, "approved", status, exit)
        /\ UNCHANGED nextID

Approve(id, approvedBy) ==
    /\ id \in DOMAIN requests
    /\ requests' = [requests EXCEPT ![id].Status = "approved",
                                    ![id].ApprovedBy = approvedBy]
    /\ UNCHANGED <<calls, nextID>>

Reject(id, rejectedBy) ==
    /\ id \in DOMAIN requests
    /\ requests' = [requests EXCEPT ![id].Status = "rejected",
                                    ![id].ApprovedBy = rejectedBy]
    /\ UNCHANGED <<calls, nextID>>

\* An Approve or Reject that reaches the request by its ExpiresAt.
HistAnswered(id) ==
    answered' = IF now <= requests[id].ExpiresAt
                THEN answered \cup {id} ELSE answered

(***************************************************************************)
(* SpecGate: MaxCalls tool calls (execute_command or terminal run) on a    *)
(* dangerous, a blocked and a harmless command, the operators' Approve and *)
(* Reject, the pollers and the clock, under every configuration.           *)
(***************************************************************************)
MaxCalls == 2

GateMaxTime == 6

GateCommands == {CmdList, CmdMkfs, CmdHalt}

GateArgs == [command : GateCommands, confirm : BOOLEAN]

InitGate ==
    /\ terminalEnabled \in BOOLEAN
    /\ confirmDangerous \in BOOLEAN
    /\ unattendedMode \in BOOLEAN
    /\ alwaysAllow \in {{}, {TerminalType}}
    /\ calls = [p \in 1..MaxCalls |-> IdleCall]
    /\ requests = <<>>
    /\ nextID = 0
    /\ answered = {}
    /\ fs = <<>>
    /\ fsOp = None
    /\ NoChat
    /\ NoRouter
    /\ now = 0
    /\ NoSessions
    /\ InitHist
    /\ NoExt

GateRest == <<ioSide, sessionSide, touched, activity, returnedFor, appended>>

GateExecuteCommand ==
    \E p \in DOMAIN calls, args \in GateArgs :
        /\ calls[p].pc = "idle"
        /\ ExecuteCommand(p, args, "ok")
        /\ HistTool("execute_command")
        /\ UNCHANGED <<toolCfg, answered, now, GateRest>>

GateTerminalRun ==
    \E p \in DOMAIN calls, command \in GateCommands :
        /\ calls[p].pc = "idle"
        /\ runCommand(p, command, "ok")
        /\ HistTool("terminal")
        /\ UNCHANGED <<toolCfg, answered, now, GateRest>>

GateWaitForResponse ==
    \E p \in DOMAIN calls :
        /\ waitForResponse(p)
        /\ HistTool("waitForResponse")
        /\ UNCHANGED <<toolCfg, answered, now, GateRest>>

GateResume ==
    \E p \in DOMAIN calls :
        /\ runCommandResume(p, "ok")
        /\ HistTool("RequestConfirmation")
        /\ UNCHANGED <<toolCfg, answered, now, GateRest>>

GateApprove ==
    \E id \in DOMAIN requests :
        /\ Approve(id, "operator")
        /\ HistAnswered(id)
        /\ HistTool("Approve")
        /\ UNCHANGED <<toolCfg, now, GateRest>>

GateReject ==
    \E id \in DOMAIN requests :
        /\ Reject(id, "operator")
        /\ HistAnswered(id)
        /\ HistTool("Reject")
        /\ UNCHANGED <<toolCfg, now, GateRest>>

GateTick == Tick(GateMaxTime)

NextGate ==
    \/ GateExecuteCommand
    \/ GateTerminalRun
    \/ GateWaitForResponse
    \/ GateResume
    \/ GateApprove
    \/ GateReject
    \/ GateTick

SpecGate == InitGate /\ [][NextGate]_vars

\* The tool's own test that the command of call p is dangerous or blocked.
CallNeedsConfirmation(p) ==
    IF calls[p].tool = "terminal"
    THEN runNeedsConfirmation(calls[p].command)
    ELSE execNeedsConfirmation(calls[p].command)

\* C1: with confirm_dangerous on and unattended_mode off, a dangerous or
\* blocked command given to execute_command or to a terminal run reaches
\* the shell only when the gate decided 'approved' for that call.
C1_RunsOnlyAfterGateApproval ==
    \A p \in DOMAIN calls :
        ( /\ calls[p].ran
          /\ CallNeedsConfirmation(p)
          /\ confirmDangerous /\ ~unattendedMode )
            => calls[p].gate = "approved"

\* C10: a request that got no Approve or Reject by its ExpiresAt ends in
\* status 'timeout', is reported not approved, its command is not run, and
\* the tool returns 'operation rejected by user'.
C10_TimeoutIsRejection ==
    \A p \in DOMAIN calls :
        ( /\ calls[p].pc = "done"
          /\ calls[p].req # 0
          /\ calls[p].req \notin answered )
            => /\ calls[p].final = "timeout"
               /\ calls[p].gate # "approved"
               /\ ~calls[p].ran
               /\ calls[p].result = "operation rejected by user"

\* C11: a request is created pending, and once its status is approved,
\* rejected or timeout no Approve, Reject or expiry check changes its
\* status or its approver while the request exists.
C11_StatusChangesAtMostOnce ==
    [][\A id \in DOMAIN requests \cap DOMAIN requests' :
          requests[id].Status # "pending"
            => /\ requests'[id].Status = requests[id].Status
               /\ requests'[id].ApprovedBy = requests[id].ApprovedBy]_vars

(***************************************************************************)
(* The path guard of the file tools (internal/tools/manager.go).           *)
(*                                                                         *)
(* A path string is the sequence of its components, "/" first when it is   *)
(* absolute; a location is the sequence of names from the root. The file   *)
(* system maps each location to a directory, a regular file (with its      *)
(* content) or a symbolic link (with its target location).                 *)
(***************************************************************************)
workDir == <<"/", "w">>

IsAbs(path) == path # <<>> /\ path[1] = "/"

\* filepath.Join(m.workDir, path), before Clean.
Join(dir, path) == dir \o path

\* filepath.Clean of an absolute path, as the location it names.
RECURSIVE cleanParts(_, _)
cleanParts(parts, acc) ==
    IF parts = <<>> THEN acc
    ELSE LET c == Head(parts)
         IN  IF c \in {".", "", "/"} THEN cleanParts(Tail(parts), acc)
             ELSE IF c = ".."
             THEN cleanParts(Tail(parts),
                      IF acc = <<>> THEN acc ELSE SubSeq(acc, 1, Len(acc) - 1))
             ELSE cleanParts(Tail(parts), Append(acc, c))

Clean(path) == cleanParts(path, <<>>)

\* filepath.Dir of a location.
Dir(loc) == IF loc = <<>> THEN loc ELSE SubSeq(loc, 1, Len(loc) - 1)

\* The length of the longest common prefix of two locations.
RECURSIVE commonPrefix(_, _)
commonPrefix(a, b) ==
    IF a = <<>> \/ b = <<>> \/ Head(a) # Head(b) THEN 0
    ELSE 1 + commonPrefix(Tail(a), Tail(b))

\* filepath.Rel(base, targ) for two locations.
Rel(base, targ) ==
    LET n == commonPrefix(base, targ)
        up == [i \in 1..(Len(base) - n) |-> ".."]
        down == SubSeq(targ, n + 1, Len(targ))
    IN  IF up \o down = <<>> THEN <<".">> ELSE up \o down

\* The kernel's walk from the resolved directory cur along the components
\* rest, following every symbolic link: the location reached, or the first
\* missing location and what was left to walk.
RECURSIVE walk(_, _, _)
walk(f, cur, rest) ==
    IF rest = <<>> THEN [err |-> "", loc |-> cur, rest |-> <<>>]
    ELSE LET next == Append(cur, Head(rest))
         IN  IF f[cur].kind # "dir"
             THEN [err |-> "ENOTDIR", loc |-> cur, rest |-> rest]
             ELSE IF next \notin DOMAIN f
             THEN [err |-> "ENOENT", loc |-> next, rest |-> Tail(rest)]
             ELSE IF f[next].kind = "link"
             THEN walk(f, <<>>, f[next].target \o Tail(rest))
             ELSE walk(f, next, Tail(rest))

\* filepath.EvalSymlinks of a location.
EvalSymlinks(f, loc) == walk(f, <<>>, loc)

\* Manager.sanitizePath: the cleaned path, or the error. A path whose
\* resolution fails with 'not exist' is compared unresolved.
sanitizePath(path) ==
    LET joined == IF IsAbs(path) THEN path ELSE Join(workDir, path)
        cleaned == Clean(joined)
        ev == EvalSymlinks(fs, cleaned)
        realPath == IF ev.err = "" THEN ev.loc ELSE cleaned
        wd == EvalSymlinks(fs, Clean(workDir))
    IN  IF ev.err \notin {"", "ENOENT"}
        THEN [err |-> "failed to resolve path", path |-> <<>>]
        ELSE IF wd.err # ""
        THEN [err |-> "failed to resolve work directory", path |-> <<>>]
        ELSE IF Rel(wd.loc, realPath)[1] = ".."
        THEN [err |-> "path is outside work directory", path |-> <<>>]
        ELSE [err |-> "", path |-> cleaned]

\* os.MkdirAll(dir) from its k-th component on: the directories it makes.
RECURSIVE mkdirAll(_, _, _, _)
mkdirAll(f, dir, k, made) ==
    IF k > Len(dir) THEN [err |-> "", fs |-> f, made |-> made]
    ELSE LET w == walk(f, <<>>, SubSeq(dir, 1, k))
             parent == walk(f, <<>>, SubSeq(dir, 1, k - 1))
         IN  IF w.err = ""
             THEN IF f[w.loc].kind = "dir"
                  THEN mkdirAll(f, dir, k + 1, made)
                  ELSE [err |-> "ENOTDIR", fs |-> f, made |-> made]
             ELSE IF parent.err = "" /\ f[parent.loc].kind = "dir"
                     /\ Append(parent.loc, dir[k]) \notin DOMAIN f
             THEN mkdirAll((Append(parent.loc, dir[k]) :> [kind |-> "dir"]) @@ f,
                           dir, k + 1, made \cup {Append(parent.loc, dir[k])})
             ELSE [err |-> "EEXIST", fs |-> f, made |-> made]

\* os.WriteFile(loc, content): O_WRONLY|O_CREATE|O_TRUNC follows the links.
osWriteFile(f, loc, content) ==
    LET w == walk(f, <<>>, loc)
    IN  IF w.err = "" /\ f[w.loc].kind = "file"
        THEN [err |-> "", at |-> {w.loc},
              fs |-> [f EXCEPT ![w.loc] = [kind |-> "file", content |-> content]]]
        ELSE IF w.err = "ENOENT" /\ w.rest = <<>>
        THEN [err |-> "", at |-> {w.loc},
              fs |-> (w.loc :> [kind |-> "file", content |-> content]) @@ f]
        ELSE [err |-> "open", at |-> {}, fs |-> f]

\* strings.Replace(s, old, new, 1) for a non-empty old.
Replace1(s, old, new) ==
    IF ~Contains(s, old) THEN s
    ELSE LET i == CHOOSE i \in 0..(Len(s) - Len(old)) :
                    /\ SubSeq(s, i + 1, i + Len(old)) = old
                    /\ \A j \in 0..(i - 1) : SubSeq(s, j + 1, j + Len(old)) # old
         IN  SubSeq(s, 1, i) \o new \o SubSeq(s, i + Len(old) + 1, Len(s))

PathOp(tool, path, err, locs) ==
    [tool |-> tool, path |-> path, err |-> err, locs |-> locs]

\* ReadFileTool.Execute
ReadFile(path) ==
    LET sp == sanitizePath(path)
        w == walk(fs, <<>>, sp.path)
    IN  /\ fsOp' = IF sp.err # "" THEN PathOp("read_file", path, sp.err, {})
                   ELSE IF w.err # ""
                   THEN PathOp("read_file", path, "failed to stat file", {})
                   ELSE IF fs[w.loc].kind # "file"
                   THEN PathOp("read_file", path, "failed to read file", {w.loc})
                   ELSE PathOp("read_file", path, "", {w.loc})
        /\ fs' = fs

\* WriteFileTool.Execute
WriteFile(path, content) ==
    LET sp == sanitizePath(path)
        mk == mkdirAll(fs, Dir(sp.path), 1, {})
        wr == osWriteFile(mk.fs, sp.path, content)
    IN  IF sp.err # ""
        THEN /\ fsOp' = PathOp("write_file", path, sp.err, {})
             /\ fs' = fs
        ELSE IF mk.err # ""
        THEN /\ fsOp' = PathOp("write_file", path, "failed to create directory", mk.made)
             /\ fs' = mk.fs
        ELSE /\ fsOp' = PathOp("write_file", path,
                            IF wr.err = "" THEN "" ELSE "failed to write file",
                            mk.made \cup wr.at)
             /\ fs' = wr.fs

\* ListDirectoryTool.Execute (an empty path is ".")
ListDirectory(path) ==
    LET sp == sanitizePath(IF path = <<>> THEN <<".">> ELSE path)
        w == walk(fs, <<>>, sp.path)
    IN  /\ fsOp' = IF sp.err # "" THEN PathOp("list_directory", path, sp.err, {})
                   ELSE IF w.err # "" \/ fs[w.loc].kind # "dir"
                   THEN PathOp("list_directory", path, "failed to read directory",
                               IF w.err = "" THEN {w.loc} ELSE {})
                   ELSE PathOp("list_directory", path, "", {w.loc})
        /\ fs' = fs

\* ApplyPatchTool.Execute
ApplyPatch(path, oldStr, newStr) ==
    LET sp == sanitizePath(path)
        w == walk(fs, <<>>, sp.path)
        oldContent == fs[w.loc].content
        wr == osWriteFile(fs, sp.path, Replace1(oldContent, oldStr, newStr))
    IN  IF sp.err # ""
        THEN /\ fsOp' = PathOp("apply_patch", path, sp.err, {})
             /\ fs' = fs
        ELSE IF w.err # "" \/ fs[w.loc].kind # "file"
        THEN /\ fsOp' = PathOp("apply_patch", path, "failed to read file",
                               IF w.err = "" THEN {w.loc} ELSE {})
             /\ fs' = fs
        ELSE IF ~Contains(oldContent, oldStr)
        THEN /\ fsOp' = PathOp("apply_patch", path, "old_string not found in file", {w.loc})
             /\ fs' = fs
        ELSE /\ fsOp' = PathOp("apply_patch", path, "", {w.loc} \cup wr.at)
             /\ fs' = wr.fs

\* filepath.Walk below the directory entry at: the files the callback of
\* GrepTool.Execute reads. Walk does not follow a link (os.Lstat);
\* os.ReadFile of an entry does.
RECURSIVE walkRead(_, _)
walkRead(f, at) ==
    IF at \notin DOMAIN f THEN {}
    ELSE IF f[at].kind = "dir"
    THEN UNION {walkRead(f, Append(at, name)) :
                   name \in {l[Len(l)] : l \in {l \in DOMAIN f :
                                Len(l) = Len(at) + 1 /\ SubSeq(l, 1, Len(at)) = at}}}
    ELSE LET w == walk(f, <<>>, at)
         IN  IF w.err = "" /\ f[w.loc].kind = "file" THEN {w.loc} ELSE {}

\* GrepTool.Execute (an empty path is ".")
Grep(path) ==
    LET sp == sanitizePath(IF path = <<>> THEN <<".">> ELSE path)
        parent == walk(fs, <<>>, Dir(sp.path))
        root == IF sp.path = <<>> THEN <<>>
                ELSE Append(parent.loc, sp.path[Len(sp.path)])
    IN  /\ fsOp' = IF sp.err # "" THEN PathOp("grep", path, sp.err, {})
                   ELSE IF parent.err # "" THEN PathOp("grep", path, "", {})
                   ELSE PathOp("grep", path, "", walkRead(fs, root))
        /\ fs' = fs

(***************************************************************************)
(* SpecPath: the five path tools on a work directory /w that holds a file  *)
(* and a symbolic link to the directory /etc outside it, for every         *)
(* relative path of at most MaxPathLen components and some absolute ones.  *)
(***************************************************************************)
MaxPathLen == 2

MaxNewNodes == 2        \* write_file is called while fewer nodes were created

PathNames == {"..", "f", "link", "new"}

RECURSIVE PathsUpTo(_)
PathsUpTo(n) ==
    IF n = 0 THEN {<<>>}
    ELSE PathsUpTo(n - 1) \cup {Append(p, c) : p \in PathsUpTo(n - 1), c \in PathNames}

PathInputs ==
    PathsUpTo(MaxPathLen)
        \cup { <<"link", "passwd">>, <<"/", "etc", "passwd">>, <<"/", "w", "f">> }

InitFs ==
    (<<>> :> [kind |-> "dir"])
    @@ (<<"etc">> :> [kind |-> "dir"])
    @@ (<<"etc", "passwd">> :> [kind |-> "file", content |-> <<"o">>])
    @@ (<<"w">> :> [kind |-> "dir"])
    @@ (<<"w", "f">> :> [kind |-> "file", content |-> <<"o">>])
    @@ (<<"w", "link">> :> [kind |-> "link", target |-> <<"etc">>])

InitPath ==
    /\ terminalEnabled = FALSE
    /\ confirmDangerous = TRUE
    /\ unattendedMode = FALSE
    /\ alwaysAllow = {}
    /\ calls = <<>>
    /\ requests = <<>>
    /\ nextID = 0
    /\ answered = {}
    /\ fs = InitFs
    /\ fsOp = PathOp("", <<>>, "", {})
    /\ NoChat
    /\ NoRouter
    /\ now = 0
    /\ NoSessions
    /\ InitHist
    /\ NoExt

PathRest ==
    <<toolSide, sessionSide, llmSide, routerSide, extSide, now, touched, activity,
      returnedFor, appended>>

PathReadFile ==
    \E path \in PathInputs :
        /\ ReadFile(path)
        /\ HistTool("read_file")
        /\ UNCHANGED PathRest

PathWriteFile ==
    \E path \in PathInputs :
        /\ Cardinality(DOMAIN fs) < Cardinality(DOMAIN InitFs) + MaxNewNodes
        /\ WriteFile(path, <<"x">>)
        /\ HistTool("write_file")
        /\ UNCHANGED PathRest

PathListDirectory ==
    \E path \in PathInputs :
        /\ ListDirectory(path)
        /\ HistTool("list_directory")
        /\ UNCHANGED PathRest

PathApplyPatch ==
    \E path \in PathInputs :
        /\ ApplyPatch(path, <<"o">>, <<"x">>)
        /\ HistTool("apply_patch")
        /\ UNCHANGED PathRest

PathGrep ==
    \E path \in PathInputs :
        /\ Grep(path)
        /\ HistTool("grep")
        /\ UNCHANGED PathRest

NextPath ==
    \/ PathReadFile
    \/ PathWriteFile
    \/ PathListDirectory
    \/ PathApplyPatch
    \/ PathGrep

SpecPath == InitPath /\ [][NextPath]_vars

\* The location lies in the work directory, links resolved.
InsideWorkDir(loc) ==
    Rel(EvalSymlinks(fs, Clean(workDir)).loc, loc)[1] # ".."

\* C3: a path tool either works only on locations that lie inside work_dir
\* once every symbolic link is resolved, or returns the outside-work-directory error and
\* touches nothing.
C3_PathToolsStayInWorkDir ==
    \/ \A loc \in fsOp.locs : InsideWorkDir(loc)
    \/ fsOp.err = "path is outside work directory" /\ fsOp.locs = {}

(***************************************************************************)
(* The agent turn (internal/agent/router.go): Agent.ProcessMessage and     *)
(* Agent.ProcessMessageStream, one action per call they make on the        *)
(* session store, the provider and the tool manager. Other turns and the   *)
(* store's own operations run between any two of these calls.              *)
(***************************************************************************)
IdleTurn ==
    [pc |-> "idle", stream |-> FALSE, sess |-> None, Content |-> <<>>,
     ToolCalls |-> <<>>, i |-> 0, result |-> "", llmCalls |-> 0, tools |-> <<>>,
     reply |-> <<>>, err |-> "", panicked |-> FALSE]

RegisteredTools == {"read_file"}

\* executeToolCall and the `if err != nil { result = "Error: ..." }` of the
\* loop: the result text of one tool call.
executeToolCall(tc, outcome) ==
    IF tc.Arguments = "{"
    THEN "Error: failed to parse tool arguments"
    ELSE IF tc.Name \notin RegisteredTools
    THEN "Error: tool not found"
    ELSE IF outcome = "ok" THEN "output" ELSE "Error: tool failed"

\* fmt.Sprintf("Tool: %s\nResult: %s", tc.Function.Name, result)
toolResult(name, result) == <<"Tool: ", name, "\nResult: ", result>>

\* A slip the tool loop could have: a failed tool call ends the turn.
pcAfterToolAbortOnError(result) ==
    IF result \in {"output"} THEN "add_tool" ELSE "return"

\* The tool loop goes on to AddMessage whatever the result of the call.
pcAfterTool(result) == "add_tool"

\* GetOrCreate on a key the store does not hold, when max_messages is
\* negative: make([]Message, 0, m.maxMessages) panics after the eviction,
\* and the deferred Unlock releases the mutex.
GetOrCreatePanics(userID, channel, agentID) ==
    /\ maxMessages < 0
    /\ makeKey(userID, channel, agentID) \notin DOMAIN sessions

GetOrCreateUntilPanic ==
    LET keptSess == Restrict(sessions, Range(keptOnCreate))
    IN  /\ lruList' = keptOnCreate
        /\ sessions' = keptSess
        /\ heap' = Restrict(heap, Live(keptSess) \cup Held)

\* sess := a.SessionMgr.GetOrCreate(userID, channel, a.ID)
ProcessMessageStart(t, userID, channel, agentID, stream) ==
    /\ turns[t].pc = "idle"
    /\ IF GetOrCreatePanics(userID, channel, agentID)
       THEN /\ GetOrCreateUntilPanic
            /\ turns' = [turns EXCEPT ![t] =
                    [IdleTurn EXCEPT !.pc = "panic", !.stream = stream]]
       ELSE /\ GetOrCreate(userID, channel, agentID)
            /\ turns' = [turns EXCEPT ![t] =
                    [IdleTurn EXCEPT !.pc = "add_user", !.stream = stream,
                             !.sess = GetOrCreateRet(userID, channel, agentID)]]

\* a.SessionMgr.AddMessage(sess, "user", content)
ProcessMessageAddUser(t, content) ==
    /\ turns[t].pc = "add_user"
    /\ AddMessage(turns[t].sess, "user", content)
    /\ turns' = [turns EXCEPT ![t].pc = "chat"]

\* The content the turn keeps of a response: resp.Content, or for the
\* stream variant the chunks its callback received (fullContent).
keptContent(t, resp) == IF turns[t].stream THEN resp.Chunks ELSE resp.Content

\* resp, err := a.Provider.Chat(messages, tools) and the branch on it.
ProcessMessageChat(t, resp) ==
    /\ turns[t].pc = "chat"
    /\ turns' = [turns EXCEPT ![t] =
            IF resp.err
            THEN [@ EXCEPT !.pc = "return", !.llmCalls = @ + 1,
                           !.tools = Append(@, RegisteredTools), !.err = "llm error"]
            ELSE [@ EXCEPT !.pc = IF Len(resp.ToolCalls) > 0
                                  THEN "add_tool_calls" ELSE "add_reply",
                           !.llmCalls = @ + 1,
                           !.tools = Append(@, RegisteredTools),
                           !.Content = keptContent(t, resp),
                           !.ToolCalls = resp.ToolCalls]]
    /\ UNCHANGED storeVars

\* a.SessionMgr.AddToolCallMessage(sess, "assistant", resp.Content, resp.ToolCalls)
ProcessMessageAddToolCalls(t) ==
    /\ turns[t].pc = "add_tool_calls"
    /\ AddToolCallMessage(turns[t].sess, "assistant", turns[t].Content,
                          turns[t].ToolCalls)
    /\ turns' = [turns EXCEPT ![t].pc = "tool", ![t].i = 1]

\* result, err := a.executeToolCall(tc)
ProcessMessageExecuteTool(t, outcome) ==
    LET result == executeToolCall(turns[t].ToolCalls[turns[t].i], outcome)
    IN  /\ turns[t].pc = "tool"
        /\ turns' = [turns EXCEPT ![t].pc = pcAfterTool(result),
                                  ![t].result = result]
        /\ UNCHANGED storeVars

\* A slip the tool loop could have: it leaves the loop after the message of
\* a failed call.
ProcessMessageAddToolResultBreakOnError(t) ==
    /\ turns[t].pc = "add_tool"
    /\ AddMessage(turns[t].sess, "tool",
                  toolResult(turns[t].ToolCalls[turns[t].i].Name, turns[t].result))
    /\ turns' = [turns EXCEPT
            ![t].pc = IF \/ turns[t].i = Len(turns[t].ToolCalls)
                         \/ turns[t].result # "output"
                      THEN "chat2" ELSE "tool",
            ![t].i = @ + 1,
            ![t].result = ""]

\* a.SessionMgr.AddMessage(sess, "tool", toolResult), then the next call of
\* the loop or, after the last one, the second Chat.
ProcessMessageAddToolResult(t) ==
    /\ turns[t].pc = "add_tool"
    /\ AddMessage(turns[t].sess, "tool",
                  toolResult(turns[t].ToolCalls[turns[t].i].Name, turns[t].result))
    /\ turns' = [turns EXCEPT
            ![t].pc = IF turns[t].i = Len(turns[t].ToolCalls) THEN "chat2" ELSE "tool",
            ![t].i = @ + 1,
            ![t].result = ""]

\* resp, err = a.Provider.Chat(messages, nil)
ProcessMessageChatAgain(t, resp) ==
    /\ turns[t].pc = "chat2"
    /\ turns' = [turns EXCEPT ![t] =
            IF resp.err
            THEN [@ EXCEPT !.pc = "return", !.llmCalls = @ + 1,
                           !.tools = Append(@, {}), !.err = "llm error"]
            ELSE [@ EXCEPT !.pc = "add_reply", !.llmCalls = @ + 1,
                           !.tools = Append(@, {}),
                           !.Content = keptContent(t, resp)]]
    /\ UNCHANGED storeVars

\* a.SessionMgr.AddMessage(sess, "assistant", resp.Content)
ProcessMessageAddReply(t) ==
    /\ turns[t].pc = "add_reply"
    /\ AddMessage(turns[t].sess, "assistant", turns[t].Content)
    /\ turns' = [turns EXCEPT ![t].pc = "return", ![t].reply = turns[t].Content]

\* The call returns: its local sess is dropped, and with it a Session the
\* store no longer references.
ProcessMessageReturn(t) ==
    /\ turns[t].pc = "return"
    /\ turns' = [turns EXCEPT ![t].pc = "done", ![t].sess = None]
    /\ heap' = Restrict(heap, Live(sessions) \cup (Held \ {turns[t].sess})
                                \cup {turns[u].sess : u \in {u \in DOMAIN turns :
                                        u # t /\ turns[u].sess # None}})
    /\ UNCHANGED <<sessions, lruList>>

\* The deferred function of Router.ProcessMessage / ProcessMessageStream
\* recovers the panic and logs it; the results are not named, so the caller
\* gets their zero values: "" and a nil error.
ProcessMessageRecover(t) ==
    /\ turns[t].pc = "panic"
    /\ turns' = [turns EXCEPT ![t].pc = "done", ![t].panicked = TRUE,
                              ![t].reply = <<>>, ![t].err = ""]
    /\ UNCHANGED storeVars

(***************************************************************************)
(* SpecTurn: two concurrent turns, each for one of two users, blocking or   *)
(* streamed, against a provider that fails, answers, or asks for one or    *)
(* two tool calls, and a tool manager whose registered tool succeeds or    *)
(* fails; the second tool name is not registered. The store is small       *)
(* enough for one turn's GetOrCreate to evict the other turn's session.    *)
(* max_messages is a configured value, which config.go does not validate:  *)
(* with a negative one GetOrCreate panics when it allocates the list.      *)
(***************************************************************************)
TurnIds == {1, 2}

\* Chunks is what the chunk callback of ChatStream receives: the content,
\* or nothing from an adapter that does not call it.
TurnResponses ==
    { [err |-> TRUE, Content |-> <<>>, Chunks |-> <<>>, ToolCalls |-> <<>>],
      [err |-> FALSE, Content |-> <<"r">>, Chunks |-> <<"r">>, ToolCalls |-> <<>>],
      [err |-> FALSE, Content |-> <<"r">>, Chunks |-> <<>>, ToolCalls |-> <<>>],
      [err |-> FALSE, Content |-> <<>>, Chunks |-> <<>>,
       ToolCalls |-> <<[ID |-> "c1", Name |-> "read_file", Arguments |-> "{"]>>],
      [err |-> FALSE, Content |-> <<>>, Chunks |-> <<>>,
       ToolCalls |-> <<[ID |-> "c1", Name |-> "read_file", Arguments |-> "x"],
                       [ID |-> "c2", Name |-> "nope", Arguments |-> "x"]>>] }

InitTurn ==
    /\ maxMessages \in {-1} \cup 1..MaxMessagesCfg
    /\ maxSessions \in 1..2
    /\ idleTimeout = 0
    /\ sessions = <<>>
    /\ lruList = <<>>
    /\ heap = <<>>
    /\ now = 0
    /\ turns = [t \in TurnIds |-> IdleTurn]
    /\ toolLog = [t \in TurnIds |-> <<>>]
    /\ turnLog = [t \in TurnIds |-> <<>>]
    /\ respLog = [t \in TurnIds |-> <<>>]
    /\ keyHist = None
    /\ InitHist
    /\ NoExt
    /\ terminalEnabled = FALSE
    /\ confirmDangerous = TRUE
    /\ unattendedMode = FALSE
    /\ alwaysAllow = {}
    /\ calls = <<>>
    /\ requests = <<>>
    /\ nextID = 0
    /\ answered = {}
    /\ fs = <<>>
    /\ fsOp = None
    /\ NoChat
    /\ NoRouter

TurnOther ==
    <<toolSide, ioSide, sessCfg, now, touched, activity, returnedFor, appended,
      keyHist>>

TurnRest == <<respLog, TurnOther>>

\* The Content of the response the Chat of the step returned (none when it
\* returned an error).
HistRespLog(t, resp) ==
    respLog' = [respLog EXCEPT ![t] =
                    IF resp.err THEN @
                    ELSE Append(@, [Content |-> resp.Content,
                                    ToolCalls |-> resp.ToolCalls])]

\* The 'tool' message the step has put at the end of the turn's session.
HistToolLog(t) ==
    toolLog' = [toolLog EXCEPT ![t] =
                    Append(@, heap'[turns[t].sess].Messages[
                                  Len(heap'[turns[t].sess].Messages)])]

\* The message the step has put at the end of the turn's session.
HistTurnLog(t) ==
    turnLog' = [turnLog EXCEPT ![t] =
                    Append(@, heap'[turns[t].sess].Messages[
                                  Len(heap'[turns[t].sess].Messages)])]

TurnStart ==
    \E t \in DOMAIN turns, u \in MsgTuples, stream \in BOOLEAN :
        /\ ProcessMessageStart(t, u[2], u[1], u[3], stream)
        /\ HistOp("GetOrCreate")
        /\ UNCHANGED <<toolLog, turnLog, TurnRest>>

TurnAddUser ==
    \E t \in DOMAIN turns :
        /\ ProcessMessageAddUser(t, <<"q">>)
        /\ HistOp("AddMessage")
        /\ HistTurnLog(t)
        /\ UNCHANGED <<toolLog, TurnRest>>

TurnChat ==
    \E t \in DOMAIN turns, resp \in TurnResponses :
        /\ ProcessMessageChat(t, resp)
        /\ HistOp("Chat")
        /\ HistRespLog(t, resp)
        /\ UNCHANGED <<toolLog, turnLog, TurnOther>>

TurnAddToolCalls ==
    \E t \in DOMAIN turns :
        /\ ProcessMessageAddToolCalls(t)
        /\ HistOp("AddToolCallMessage")
        /\ HistTurnLog(t)
        /\ UNCHANGED <<toolLog, TurnRest>>

TurnExecuteTool ==
    \E t \in DOMAIN turns, outcome \in {"ok", "failed"} :
        /\ ProcessMessageExecuteTool(t, outcome)
        /\ HistOp("executeToolCall")
        /\ UNCHANGED <<toolLog, turnLog, TurnRest>>

TurnAddToolResult ==
    \E t \in DOMAIN turns :
        /\ ProcessMessageAddToolResult(t)
        /\ HistOp("AddMessage")
        /\ HistToolLog(t)
        /\ HistTurnLog(t)
        /\ UNCHANGED TurnRest

TurnChatAgain ==
    \E t \in DOMAIN turns, resp \in TurnResponses :
        /\ ProcessMessageChatAgain(t, resp)
        /\ HistOp("Chat")
        /\ HistRespLog(t, resp)
        /\ UNCHANGED <<toolLog, turnLog, TurnOther>>

TurnAddReply ==
    \E t \in DOMAIN turns :
        /\ ProcessMessageAddReply(t)
        /\ HistOp("AddMessage")
        /\ HistTurnLog(t)
        /\ UNCHANGED <<toolLog, TurnRest>>

TurnReturn ==
    \E t \in DOMAIN turns :
        /\ ProcessMessageReturn(t)
        /\ HistOp("return")
        /\ UNCHANGED <<toolLog, turnLog, TurnRest>>

TurnRecover ==
    \E t \in DOMAIN turns :
        /\ ProcessMessageRecover(t)
        /\ HistOp("recover")
        /\ UNCHANGED <<toolLog, turnLog, TurnRest>>

NextTurn ==
    \/ TurnStart
    \/ TurnAddUser
    \/ TurnChat
    \/ TurnAddToolCalls
    \/ TurnExecuteTool
    \/ TurnAddToolResult
    \/ TurnChatAgain
    \/ TurnAddReply
    \/ TurnReturn
    \/ TurnRecover

SpecTurn == InitTurn /\ [][NextTurn]_vars

\* C7: a turn whose response carries K tool calls appends one 'tool' message
\* per call, in the order of the calls, the next call starting only after
\* the message of the one before is appended, and all K of them before the
\* second LLM call, whether the calls succeed or fail.
C7_OneToolMessagePerCallInOrder ==
    \A t \in DOMAIN turns :
        LET K == Len(turns[t].ToolCalls)
            log == toolLog[t]
        IN  /\ Len(log) <= K
            /\ \A j \in 1..Len(log) :
                  /\ log[j].Role = "tool"
                  /\ log[j].Content[2] = turns[t].ToolCalls[j].Name
            /\ turns[t].pc \in {"tool", "add_tool"} => Len(log) = turns[t].i - 1
            /\ (K >= 1 /\ (turns[t].llmCalls = 2 \/ turns[t].pc \in {"chat2", "return", "done"}))
                  => Len(log) = K

\* C7: a turn with two tool calls, the first succeeded and the second
\* failed, has made its second LLM call.
C7_Witness ==
    \E t \in DOMAIN turns :
        /\ Len(turns[t].ToolCalls) = 2
        /\ turns[t].llmCalls = 2
        /\ Len(toolLog[t]) = 2
        /\ toolLog[t][1].Content = toolResult("read_file", "output")
        /\ toolLog[t][2].Content = toolResult("nope", "Error: tool not found")

\* The text a tool call is answered with when it cannot be given to a tool.
dispatchFailure(tc) ==
    IF tc.Arguments = "{" THEN "Error: failed to parse tool arguments"
    ELSE IF tc.Name \notin RegisteredTools THEN "Error: tool not found"
    ELSE ""

\* C14: a tool call that fails (unknown name, unparsable arguments, an error
\* of the tool) gets its failure text as a 'tool' message; the turn goes on
\* with the remaining calls and the second LLM call, and the only error a
\* turn returns is that of an LLM call.
C14_ToolFailureDoesNotAbortTurn ==
    \A t \in DOMAIN turns :
        LET K == Len(turns[t].ToolCalls)
            log == toolLog[t]
        IN  /\ \A j \in 1..Len(log) :
                  /\ j <= K
                  /\ log[j].Role = "tool"
                  /\ log[j].Content[2] = turns[t].ToolCalls[j].Name
                  /\ dispatchFailure(turns[t].ToolCalls[j]) # ""
                        => log[j].Content[4] = dispatchFailure(turns[t].ToolCalls[j])
                  /\ log[j].Content[4] \in
                        {"output", "Error: tool failed", "Error: tool not found",
                         "Error: failed to parse tool arguments"}
            /\ turns[t].pc = "add_tool" => Len(log) = turns[t].i - 1
            /\ (K >= 1 /\ turns[t].pc \in {"return", "done"})
                  => /\ Len(log) = K
                     /\ turns[t].llmCalls = 2
            /\ turns[t].err \in {"", "llm error"}
            /\ turns[t].err = "llm error" => turns[t].pc \in {"return", "done"}

\* C14: a finished turn whose two tool calls both failed, the first with an
\* error of the tool, has made its second LLM call and returned a reply.
C14_Witness ==
    \E t \in DOMAIN turns :
        /\ turns[t].pc = "done"
        /\ Len(toolLog[t]) = 2
        /\ toolLog[t][1].Content = toolResult("read_file", "Error: tool failed")
        /\ toolLog[t][2].Content = toolResult("nope", "Error: tool not found")
        /\ turns[t].llmCalls = 2
        /\ turns[t].err = ""
        /\ turns[t].reply = <<"r">>

\* C15: a turn that ends early (an LLM call failed, or the turn panicked)
\* has appended its user message and nothing else: no assistant tool_calls
\* message and no tool message without the final assistant reply.
C15_EarlyEndLeavesNoPartialOutput ==
    \A t \in DOMAIN turns :
        (turns[t].pc = "done" /\ (turns[t].err # "" \/ turns[t].panicked))
            => /\ \A j \in 1..Len(turnLog[t]) : turnLog[t][j].Role = "user"
               /\ turns[t].err # "" => Len(turnLog[t]) = 1

\* C16: a turn that panicked inside Router.ProcessMessage or
\* Router.ProcessMessageStream returns, and returns a non-nil error.
C16_PanicBecomesError ==
    \A t \in DOMAIN turns :
        (turns[t].pc = "done" /\ turns[t].panicked) => turns[t].err # ""

\* The Content of the assistant messages of a list, in order.
AssistantContents(log) ==
    LET a == SelectSeq(log, LAMBDA msg : msg.Role = "assistant")
    IN  [j \in 1..Len(a) |-> a[j].Content]

\* C21: a turn, streamed or blocking, that got the same provider responses
\* returns the same reply and appends the same messages: the reply is the
\* Content of the last response, and each assistant message holds the
\* Content of the response it was made from, also when the adapter's
\* ChatStream does not call the chunk callback.
C21_StreamEqualsBlocking ==
    \A t \in DOMAIN turns :
        /\ (turns[t].pc = "done" /\ turns[t].err = "" /\ ~turns[t].panicked)
              => /\ turns[t].reply = respLog[t][Len(respLog[t])].Content
                 /\ Len(AssistantContents(turnLog[t])) = Len(respLog[t])
        /\ \A j \in 1..Len(AssistantContents(turnLog[t])) :
              AssistantContents(turnLog[t])[j] = respLog[t][j].Content

\* C26: a turn makes one LLM call with the tool definitions; if that response
\* carries tool calls it makes exactly one further call, with no tool
\* definitions, whose content is the reply even if it carries tool calls
\* again; no turn makes more than two LLM calls.
C26_AtMostTwoLLMCalls ==
    \A t \in DOMAIN turns :
        LET T == turns[t]
            R == respLog[t]
        IN  /\ T.llmCalls <= 2
            /\ Len(T.tools) = T.llmCalls
            /\ T.llmCalls >= 1 => T.tools[1] = RegisteredTools
            /\ T.llmCalls = 2 => T.tools[2] = {} /\ R[1].ToolCalls # <<>>
            /\ (T.pc = "done" /\ T.err = "" /\ ~T.panicked)
                  => /\ T.llmCalls = IF R[1].ToolCalls # <<>> THEN 2 ELSE 1
                     /\ T.reply = R[Len(R)].Content

(***************************************************************************)
(* The LLM client (internal/llm/provider.go): the blocking Chat of the     *)
(* three provider adapters.                                                *)
(*                                                                         *)
(* One request ends in a transport error (client.Do fails) or in an HTTP   *)
(* response, of which the adapters read the status code; a 200 response    *)
(* here carries a well-formed body.                                        *)
(***************************************************************************)
Providers == {"openai", "anthropic", "ollama"}

SendOutcomes == {"transport", "200", "400", "500"}

IdleChat(provider, maxRetries) ==
    [provider |-> provider, maxRetries |-> maxRetries, pc |-> "idle",
     attempt |-> 0, slept |-> 0, lastErr |-> "", ret |-> ""]

\* sendRequest (and the body of OllamaProvider.Chat): the error of one
\* request, "" for none.
sendRequest(outcome) ==
    IF outcome = "transport" THEN "transport error"
    ELSE IF outcome # "200" THEN "api error: " \o outcome
    ELSE ""

\* for attempt := 0; attempt <= p.maxRetries; attempt++
loopGoesOn(c) == c.attempt <= c.maxRetries

\* After the loop: "... request failed after %d retries: %w".
doRequestEnd(c) ==
    IF loopGoesOn(c) THEN c
    ELSE [c EXCEPT !.pc = "done", !.ret = "failed after retries: " \o c.lastErr]

\* Chat is called: the OpenAI-compatible and the Anthropic adapter enter
\* the loop of doRequest, the Ollama adapter sends its request itself.
Chat ==
    /\ chat.pc = "idle"
    /\ chat' = IF chat.provider = "ollama"
               THEN [chat EXCEPT !.pc = "send"]
               ELSE doRequestEnd([chat EXCEPT !.pc = "loop"])

\* One iteration of the loop of doRequest: the sleep before a retry, the
\* request, the return on success, and the loop test that follows a failure.
doRequest(outcome) ==
    LET err == sendRequest(outcome)
    IN  /\ chat.pc = "loop"
        /\ chat' = IF err = ""
                   THEN [chat EXCEPT !.pc = "done", !.ret = "ok",
                                     !.slept = @ + chat.attempt]
                   ELSE doRequestEnd([chat EXCEPT !.lastErr = err,
                                                  !.slept = @ + chat.attempt,
                                                  !.attempt = @ + 1])

\* OllamaProvider.Chat: one request, its error returned as it is.
OllamaChat(outcome) ==
    LET err == sendRequest(outcome)
    IN  /\ chat.pc = "send"
        /\ chat' = [chat EXCEPT !.pc = "done",
                                !.ret = IF err = "" THEN "ok" ELSE err]

(***************************************************************************)
(* SpecChat: one blocking Chat on each adapter, for every configured       *)
(* maxRetries up to MaxRetriesCfg and every course of its requests.        *)
(***************************************************************************)
MaxRetriesCfg == 3

InitChat ==
    /\ chat \in {IdleChat(p, r) : p \in Providers, r \in 0..MaxRetriesCfg}
    /\ sent = <<>>
    /\ NoRouter
    /\ now = 0
    /\ NoTools
    /\ NoSessions
    /\ InitHist
    /\ NoExt

ChatRest ==
    <<toolSide, fsSide, routerSide, extSide, sessionSide, now, touched, activity,
      returnedFor, appended>>

ChatChat ==
    /\ Chat
    /\ HistTool("Chat")
    /\ UNCHANGED <<sent, ChatRest>>

ChatDoRequest ==
    \E outcome \in SendOutcomes :
        /\ doRequest(outcome)
        /\ sent' = Append(sent, outcome)
        /\ HistTool("doRequest")
        /\ UNCHANGED ChatRest

ChatOllamaChat ==
    \E outcome \in SendOutcomes :
        /\ OllamaChat(outcome)
        /\ sent' = Append(sent, outcome)
        /\ HistTool("OllamaProvider.Chat")
        /\ UNCHANGED ChatRest

NextChat ==
    \/ ChatChat
    \/ ChatDoRequest
    \/ ChatOllamaChat

SpecChat == InitChat /\ [][NextChat]_vars

\* C12: a blocking chat of any adapter sends at most max_retries+1
\* requests, returns the first successful response without sending another
\* request, and reports failure only after max_retries+1 failed requests.
C12_AtMostMaxRetriesPlusOneAttempts ==
    /\ Len(sent) <= chat.maxRetries + 1
    /\ \A i \in 1..Len(sent) :
          sent[i] = "200" => i = Len(sent) /\ chat.pc = "done" /\ chat.ret = "ok"
    /\ (chat.pc = "done" /\ chat.ret = "ok") => sent[Len(sent)] = "200"
    /\ (chat.pc = "done" /\ chat.ret # "ok")
          => /\ Len(sent) = chat.maxRetries + 1
             /\ \A i \in 1..Len(sent) : sent[i] # "200"

\* C13: a request answered with a 4xx status is the last one of its chat
\* and the chat returns the error; only a transport error or a 5xx status
\* is followed by another request.
C13_ClientErrorIsNotRetried ==
    \A i \in 1..Len(sent) :
        /\ sent[i] = "400"
              => i = Len(sent) /\ chat.pc = "done" /\ chat.ret # "ok"
        /\ i < Len(sent) => sent[i] \in {"transport", "500"}

(***************************************************************************)
(* The agent router (internal/agent/router.go): the registry of agents and *)
(* Route. Gateway.initComponents registers one agent per key of the        *)
(* configuration's agents map, in the order the map iteration yields them, *)
(* before any channel or the web server can call Route.                    *)
(***************************************************************************)
AgentIds == {"", "a", "b", "c"}

\* The agent ids a caller of Route may give (the web API passes the
\* request's agent id as it is).
RouteIds == AgentIds \cup {"x"}

\* CreateAgent(id, ...): the Agent object, known by its ID.
CreateAgent(id) == [ID |-> id]

nilAgent == [ID |-> "<nil>"]

\* RegisterAgent(id, agent)
RegisterAgent(id, agent) ==
    /\ agents' = [k \in DOMAIN agents \cup {id} |->
                     IF k = id THEN agent ELSE agents[k]]
    /\ defaultAgent' = IF defaultAgent = "" THEN id ELSE defaultAgent

\* GetAgent(id) and GetDefaultAgent(): the map lookup and its ok.
GetAgent(id) ==
    IF id \in DOMAIN agents THEN [agent |-> agents[id], ok |-> TRUE]
    ELSE [agent |-> nilAgent, ok |-> FALSE]

GetDefaultAgent == GetAgent(defaultAgent)

\* A slip Route could have: an unknown id falls through to the default.
RouteFallsBackToDefault(userID, channel, agentID) ==
    IF agentID # "" /\ GetAgent(agentID).ok
    THEN [agent |-> GetAgent(agentID).agent, err |-> ""]
    ELSE IF GetDefaultAgent.ok
         THEN [agent |-> GetDefaultAgent.agent, err |-> ""]
         ELSE [agent |-> nilAgent, err |-> "no agent available"]

\* Route(userID, channel, agentID): the agent and the error it returns.
Route(userID, channel, agentID) ==
    IF agentID # ""
    THEN IF GetAgent(agentID).ok
         THEN [agent |-> GetAgent(agentID).agent, err |-> ""]
         ELSE [agent |-> nilAgent, err |-> "agent not found"]
    ELSE IF GetDefaultAgent.ok
         THEN [agent |-> GetDefaultAgent.agent, err |-> ""]
         ELSE [agent |-> nilAgent, err |-> "no agent available"]

(***************************************************************************)
(* SpecRouter: every set of configured agent ids (the empty id is a legal  *)
(* key of the map), every registration order, then Route with any id.      *)
(***************************************************************************)
InitRouter ==
    /\ cfgAgents \in SUBSET AgentIds
    /\ agents = <<>>
    /\ defaultAgent = ""
    /\ routed = None
    /\ defaultsSeen = {}
    /\ NoChat
    /\ now = 0
    /\ NoTools
    /\ NoSessions
    /\ InitHist
    /\ NoExt

RouterRest ==
    <<toolSide, fsSide, llmSide, extSide, sessionSide, now, touched, activity,
      returnedFor, appended>>

\* One iteration of the registration loop of initComponents.
RouterRegisterAgent ==
    \E id \in cfgAgents :
        /\ RegisterAgent(id, CreateAgent(id))
        /\ cfgAgents' = cfgAgents \ {id}
        /\ HistTool("RegisterAgent")
        /\ UNCHANGED <<routed, defaultsSeen, RouterRest>>

\* A Route call of a channel (empty id) or of the web API (any id), after
\* initComponents has returned.
RouterRoute ==
    \E agentID \in RouteIds :
        LET res == Route("u", "w", agentID)
        IN  /\ cfgAgents = {}
            /\ routed' = [agentID |-> agentID, res |-> res]
            /\ defaultsSeen' = IF agentID = "" /\ res.err = ""
                               THEN defaultsSeen \cup {res.agent}
                               ELSE defaultsSeen
            /\ HistTool("Route")
            /\ UNCHANGED <<cfgAgents, agents, defaultAgent, RouterRest>>

NextRouter ==
    \/ RouterRegisterAgent
    \/ RouterRoute

SpecRouter == InitRouter /\ [][NextRouter]_vars

\* C17: Route with a non-empty id returns the agent registered under that
\* id, or an error when there is none (never the default); with the empty
\* id it returns the default agent, the same one at every call, or an error
\* when no agent is registered.
C17_RouteByIdOrDefault ==
    /\ Cardinality(defaultsSeen) <= 1
    /\ routed # None =>
          LET id == routed.agentID
              res == routed.res
          IN  /\ (id # "" /\ id \in DOMAIN agents)
                    => res = [agent |-> agents[id], err |-> ""] /\ res.agent.ID = id
              /\ (id # "" /\ id \notin DOMAIN agents)
                    => res.err # "" /\ res.agent = nilAgent
              /\ (id = "" /\ DOMAIN agents # {})
                    => res.err = "" /\ res.agent \in Range(agents)
                                    /\ defaultsSeen = {res.agent}
              /\ (id = "" /\ DOMAIN agents = {})
                    => res.err # "" /\ res.agent = nilAgent

\* C17: with agents registered under the empty id and under "a", a Route
\* for the unknown id "x" has failed after a Route for the empty id had
\* returned the default agent.
C17_Witness ==
    /\ DOMAIN agents = {"", "a"}
    /\ defaultsSeen # {}
    /\ routed # None
    /\ routed.agentID = "x"
    /\ routed.res.err = "agent not found"

(***************************************************************************)
(* SpecConc: the goroutines of TestConcurrentAccess, for every assignment  *)
(* of keys to goroutines and every max_sessions up to MaxSessionsCfg. Each *)
(* goroutine calls GetOrCreate, keeps the *Session it got, and calls       *)
(* AddMessage on it. GetOrCreate holds the manager's mutex from its first  *)
(* to its last line, AddMessage the session's: the goroutines interleave   *)
(* at whole calls.                                                         *)
(***************************************************************************)
MaxGoroutines == 3

ConcTuples ==
    { <<<<"w">>, <<"0">>, <<"d">>>>,
      <<<<"w">>, <<"1">>, <<"d">>>>,
      <<<<"w">>, <<"2">>, <<"d">>>> }

InitConc ==
    /\ maxMessages = MaxMessagesCfg
    /\ maxSessions \in 1..MaxSessionsCfg
    /\ idleTimeout = 0
    /\ sessions = <<>>
    /\ lruList = <<>>
    /\ heap = <<>>
    /\ now = 0
    /\ turns = [g \in 1..MaxGoroutines |-> IdleTurn]
    /\ toolLog = [g \in 1..MaxGoroutines |-> <<>>]
    /\ turnLog = [g \in 1..MaxGoroutines |-> <<>>]
    /\ respLog = [g \in 1..MaxGoroutines |-> <<>>]
    /\ keyHist = None
    /\ InitHist
    /\ NoExt
    /\ NoTools
    /\ NoChat
    /\ NoRouter

\* sess := mgr.GetOrCreate(userID, "telegram", "default")
ConcGetOrCreate ==
    \E g \in DOMAIN turns, u \in ConcTuples :
        /\ ProcessMessageStart(g, u[2], u[1], u[3], FALSE)
        /\ HistOp("GetOrCreate")
        /\ UNCHANGED <<toolLog, turnLog, TurnRest>>

\* mgr.AddMessage(sess, "user", "Hello")
ConcAddMessage ==
    \E g \in DOMAIN turns :
        /\ ProcessMessageAddUser(g, <<"Hello">>)
        /\ HistOp("AddMessage")
        /\ HistTurnLog(g)
        /\ UNCHANGED <<toolLog, TurnRest>>

NextConc ==
    \/ ConcGetOrCreate
    \/ ConcAddMessage

SpecConc == InitConc /\ [][NextConc]_vars

\* The goroutines whose GetOrCreate has returned, and the keys they used.
ConcReturned == {g \in DOMAIN turns : turns[g].sess # None}

ConcKeys == {turns[g].sess[1] : g \in ConcReturned}

\* C19: when the goroutines use N distinct keys, N <= max_sessions, the
\* store holds exactly those N sessions, and all goroutines that used one
\* key hold the same Session object, the one the store holds for the key.
C19_OneSessionPerKey ==
    Cardinality(ConcKeys) <= maxSessions
        => /\ DOMAIN sessions = ConcKeys
           /\ Cardinality(DOMAIN sessions) = Cardinality(ConcKeys)
           /\ \A g \in ConcReturned : turns[g].sess = sessions[turns[g].sess[1]]
           /\ \A g, h \in ConcReturned :
                 turns[g].sess[1] = turns[h].sess[1] => turns[g].sess = turns[h].sess

\* C19: with max_sessions = 2, three goroutines have used two keys, two of
\* them the same one, and the session of that key holds both messages.
C19_Witness ==
    /\ maxSessions = 2
    /\ Cardinality(ConcReturned) = 3
    /\ Cardinality(ConcKeys) = 2
    /\ Cardinality(DOMAIN sessions) = 2
    /\ \E g, h \in ConcReturned :
          /\ g # h
          /\ turns[g].sess = turns[h].sess
          /\ Len(heap[turns[g].sess].Messages) = 2

(***************************************************************************)
(* Everything outside the layers below: untouched by their actions.        *)
(***************************************************************************)
coreSide ==
    <<sessCfg, storeVars, now, turnSide, toolSide, fsSide, llmSide, routerSide,
      histVars>>

NoCore ==
    /\ now = 0
    /\ NoSessions
    /\ InitHist
    /\ NoTools
    /\ NoChat
    /\ NoRouter

(***************************************************************************)
(* OpenAIProvider.doStreamRequest (internal/llm/provider.go): the request  *)
(* is sent, then the body is scanned line by line. A line is a "data: "    *)
(* line with a JSON chunk, the "data: [DONE]" line, or anything else (no   *)
(* prefix, or JSON that does not parse). A tool-call fragment on the wire  *)
(* carries index, id, function.name and function.arguments;                *)
(* session.ToolCall has no field for index, so json.Unmarshal drops it.    *)
(***************************************************************************)
MaxLines == 3           \* lines in a streamed body

Fragment(index, id, name, arguments) ==
    [index |-> index, ID |-> id, Name |-> name, Arguments |-> arguments]

DeltaLine(content, fragments) ==
    [kind |-> "delta", Content |-> content, ToolCalls |-> fragments]

SSELines ==
    { DeltaLine(<<"a">>, <<>>),
      DeltaLine(<<>>, <<Fragment(0, "c0", "f", <<"{">>)>>),
      DeltaLine(<<>>, <<Fragment(0, "", "", <<"}">>)>>),
      DeltaLine(<<>>, <<Fragment(1, "c1", "g", <<"x">>)>>),
      [kind |-> "done", Content |-> <<>>, ToolCalls |-> <<>>],
      [kind |-> "other", Content |-> <<>>, ToolCalls |-> <<>>] }

RECURSIVE SeqsUpTo(_, _)
SeqsUpTo(S, n) ==
    IF n = 0 THEN {<<>>}
    ELSE SeqsUpTo(S, n - 1)
            \cup {Append(q, x) : q \in SeqsUpTo(S, n - 1), x \in S}

\* json.Unmarshal of one tool_calls entry into a session.ToolCall.
UnmarshalToolCall(f) ==
    [ID |-> f.ID, Name |-> f.Name, Arguments |-> f.Arguments]

UnmarshalToolCalls(fragments) ==
    [j \in 1..Len(fragments) |-> UnmarshalToolCall(fragments[j])]

\* p.client.Do(req) and the status check.
doStreamRequestSend(outcome) ==
    /\ sse # None
    /\ sse.pc = "send"
    /\ sse' = IF outcome = "ok"
              THEN [sse EXCEPT !.pc = "scan"]
              ELSE [sse EXCEPT !.pc = "returned", !.err = outcome]

\* One iteration of `for scanner.Scan()`.
doStreamRequestScan ==
    /\ sse # None
    /\ sse.pc = "scan"
    /\ sse.n < Len(sse.body)
    /\ LET line == sse.body[sse.n + 1]
       IN  sse' =
             IF line.kind = "other" THEN [sse EXCEPT !.n = @ + 1]
             ELSE IF line.kind = "done" THEN [sse EXCEPT !.n = @ + 1, !.pc = "return"]
             ELSE [sse EXCEPT
                     !.n = @ + 1,
                     !.fullContent = @ \o line.Content,
                     !.callback = IF line.Content # <<>>
                                  THEN Append(@, line.Content) ELSE @,
                     !.toolCalls = @ \o UnmarshalToolCalls(line.ToolCalls)]

\* The scanner reaches the end of the body.
doStreamRequestEOF ==
    /\ sse # None
    /\ sse.pc = "scan"
    /\ sse.n = Len(sse.body)
    /\ sse' = [sse EXCEPT !.pc = "return"]

\* return &Response{Content: fullContent.String(), ToolCalls: toolCalls}, nil
doStreamRequestReturn ==
    /\ sse # None
    /\ sse.pc = "return"
    /\ sse' = [sse EXCEPT !.pc = "returned",
                          !.resp = [Content |-> sse.fullContent,
                                    ToolCalls |-> sse.toolCalls]]

(***************************************************************************)
(* SpecStream: one doStreamRequest call on every body of at most MaxLines  *)
(* lines.                                                                  *)
(***************************************************************************)
InitStream ==
    /\ NoCore
    /\ NoMem
    /\ patchArgs = None
    /\ NoChan
    /\ NoCmd
    /\ NoSys
    /\ built = None
    /\ \E body \in SeqsUpTo(SSELines, MaxLines) :
            sse = [pc |-> "send", body |-> body, n |-> 0, fullContent |-> <<>>,
                   callback |-> <<>>, toolCalls |-> <<>>, resp |-> None,
                   err |-> ""]

StreamRest == <<coreSide, built, memSide, patchArgs, chanSide, cmdSide, sysSide>>

StreamSend ==
    \E outcome \in {"ok", "transport error", "llm api error"} :
        /\ doStreamRequestSend(outcome)
        /\ UNCHANGED StreamRest

StreamScan ==
    /\ doStreamRequestScan
    /\ UNCHANGED StreamRest

StreamEOF ==
    /\ doStreamRequestEOF
    /\ UNCHANGED StreamRest

StreamReturn ==
    /\ doStreamRequestReturn
    /\ UNCHANGED StreamRest

NextStream ==
    \/ StreamSend
    \/ StreamScan
    \/ StreamEOF
    \/ StreamReturn

SpecStream == InitStream /\ [][NextStream]_vars

\* The fragments the body delivers before its [DONE] line, in arrival order.
RECURSIVE ArrivedFragments(_)
ArrivedFragments(body) ==
    IF body = <<>> \/ Head(body).kind = "done" THEN <<>>
    ELSE (IF Head(body).kind = "delta" THEN Head(body).ToolCalls ELSE <<>>)
            \o ArrivedFragments(Tail(body))

\* The arguments of the fragments carrying one index, concatenated in order.
RECURSIVE ArgumentsOf(_, _)
ArgumentsOf(fragments, index) ==
    IF fragments = <<>> THEN <<>>
    ELSE (IF Head(fragments).index = index THEN Head(fragments).Arguments ELSE <<>>)
            \o ArgumentsOf(Tail(fragments), index)

\* C22: the response a streamed request returns has exactly one ToolCall per
\* distinct index among the fragments that arrived, and for every index a
\* ToolCall whose arguments are the concatenation, in arrival order, of the
\* fragments carrying that index.
C22_FragmentsMergedByIndex ==
    (sse # None /\ sse.pc = "returned" /\ sse.err = "")
        => LET fr == ArrivedFragments(sse.body)
               indices == {fr[j].index : j \in 1..Len(fr)}
           IN  /\ Len(sse.resp.ToolCalls) = Cardinality(indices)
               /\ \A k \in indices :
                    \E j \in 1..Len(sse.resp.ToolCalls) :
                        sse.resp.ToolCalls[j].Arguments = ArgumentsOf(fr, k)

(***************************************************************************)
(* AnthropicProvider.buildRequest and separateMessages                     *)
(* (internal/llm/provider.go).                                             *)
(***************************************************************************)
MaxMsgs == 3            \* messages in the list a request is built from

\* One pass of the loop of separateMessages over the messages.
RECURSIVE separateLoop(_, _, _)
separateLoop(messages, systemMsg, userMsgs) ==
    IF messages = <<>> THEN [systemMsg |-> systemMsg, userMsgs |-> userMsgs]
    ELSE LET msg == Head(messages)
         IN  IF msg.Role = "system"
             THEN separateLoop(Tail(messages), msg.Content, userMsgs)
             ELSE separateLoop(Tail(messages), systemMsg,
                               Append(userMsgs, [role |-> msg.Role,
                                                 content |-> msg.Content]))

separateMessages(messages) == separateLoop(messages, <<>>, <<>>)

\* buildRequest: reqBody as the set of its keys and the values of those the
\* messages decide.
buildRequest(messages, tools, stream) ==
    LET sep == separateMessages(messages)
    IN  [keys |-> {"model", "messages", "stream", "max_tokens"}
                    \cup (IF sep.systemMsg # <<>> THEN {"system"} ELSE {})
                    \cup (IF tools # {} THEN {"tools"} ELSE {}),
         messages |-> sep.userMsgs,
         stream |-> stream,
         system |-> sep.systemMsg]

\* Chat / ChatStream build the request body of the call.
AnthropicBuild(tools, stream) ==
    /\ built # None
    /\ built.pc = "call"
    /\ built' = [built EXCEPT !.pc = "built",
                              !.reqBody = buildRequest(built.messages, tools, stream)]

(***************************************************************************)
(* SpecBuild: buildRequest on every list of at most MaxMsgs messages.      *)
(***************************************************************************)
BuildMessages ==
    { [Role |-> "system", Content |-> <<"p">>, ToolCalls |-> <<>>],
      [Role |-> "system", Content |-> <<"q">>, ToolCalls |-> <<>>],
      [Role |-> "user", Content |-> <<"u">>, ToolCalls |-> <<>>],
      [Role |-> "assistant", Content |-> <<"a">>, ToolCalls |-> MsgToolCalls] }

InitBuild ==
    /\ NoCore
    /\ NoMem
    /\ patchArgs = None
    /\ NoChan
    /\ NoCmd
    /\ NoSys
    /\ sse = None
    /\ \E messages \in SeqsUpTo(BuildMessages, MaxMsgs) :
            built = [pc |-> "call", messages |-> messages, reqBody |-> None]

BuildRest == <<coreSide, sse, memSide, patchArgs, chanSide, cmdSide, sysSide>>

BuildChat ==
    \E tools \in {{}, RegisteredTools} :
        /\ AnthropicBuild(tools, FALSE)
        /\ UNCHANGED BuildRest

BuildChatStream ==
    \E tools \in {{}, RegisteredTools} :
        /\ AnthropicBuild(tools, TRUE)
        /\ UNCHANGED BuildRest

NextBuild ==
    \/ BuildChat
    \/ BuildChatStream

SpecBuild == InitBuild /\ [][NextBuild]_vars

\* The positions of the messages with role "system".
SystemAt(messages) == {j \in 1..Len(messages) : messages[j].Role = "system"}

RoleContent(messages) ==
    [j \in 1..Len(messages) |->
        [role |-> messages[j].Role, content |-> messages[j].Content]]

\* C23: the request built from a message list has the content of the first
\* message with role "system" as its top-level system field (no such field
\* when there is none), and every other message as {role, content}, in the
\* original order.
C23_FirstSystemLifted ==
    (built # None /\ built.pc = "built")
        => LET ms == built.messages
               r == built.reqBody
           IN  IF SystemAt(ms) = {}
               THEN /\ "system" \notin r.keys
                    /\ r.messages = RoleContent(ms)
               ELSE LET first == CHOOSE j \in SystemAt(ms) :
                                    \A k \in SystemAt(ms) : j <= k
                    IN  /\ "system" \in r.keys
                        /\ r.system = ms[first].Content
                        /\ r.messages = RoleContent(RemoveAt(ms, first))

(***************************************************************************)
(* memory.Manager (internal/memory): the daily notes memory/<date>.md and  *)
(* the long-term memory MEMORY.md. A file is modelled by its size in       *)
(* bytes; a content is given by its length.                                *)
(***************************************************************************)
MaxFileSizeCfg == 40    \* the largest max_file_size configured

MaxContentLen == 30     \* the longest content of a call

\* len(fmt.Sprintf("\n### %s\n\n%s\n", timestamp, content)) with a
\* timestamp of the layout "15:04:05".
DailyEntryLen(contentLen) == 5 + 8 + 2 + contentLen + 1

\* len(fmt.Sprintf("<!-- %s -->\n", timestamp)) with a timestamp of the
\* layout "2006-01-02 15:04:05".
StampLen == 5 + 19 + 5

\* os.Stat / os.ReadFile: the size of a file, 0 for one that does not exist.
SizeOf(file) == IF file \in DOMAIN memFiles THEN memFiles[file] ELSE 0

MemOp(name, file, err) == [name |-> name, file |-> file, err |-> err]

\* The files after the write and the error the call returns.
MemResult(files, err) == [files |-> files, err |-> err]

\* WriteDailyNote(date, content)
WriteDailyNoteResult(date, contentLen) ==
    IF memoryDir = "" THEN MemResult(memFiles, "")
    ELSE IF date \in DOMAIN memFiles /\ memFiles[date] > maxFileSize
    THEN MemResult(memFiles, "daily note file too large")
    ELSE MemResult((date :> (SizeOf(date) + DailyEntryLen(contentLen))) @@ memFiles, "")

WriteDailyNote(date, contentLen) ==
    LET r == WriteDailyNoteResult(date, contentLen)
    IN  /\ memFiles' = r.files
        /\ memOp' = MemOp("WriteDailyNote", date, r.err)

\* WriteLongTermMemory(content)
WriteLongTermMemoryResult(contentLen) ==
    IF memoryDir = "" THEN MemResult(memFiles, "")
    ELSE IF contentLen > maxFileSize
    THEN MemResult(memFiles, "memory content too large")
    ELSE MemResult(("MEMORY.md" :> contentLen) @@ memFiles, "")

WriteLongTermMemory(contentLen) ==
    LET r == WriteLongTermMemoryResult(contentLen)
    IN  /\ memFiles' = r.files
        /\ memOp' = MemOp("WriteLongTermMemory", "MEMORY.md", r.err)

\* AppendToLongTermMemory(content)
AppendToLongTermMemory(contentLen) ==
    LET existing == SizeOf("MEMORY.md")
        newContent == (IF existing # 0 THEN existing + 2 ELSE 0)
                        + StampLen + contentLen
        r == WriteLongTermMemoryResult(newContent)
    IN  /\ memFiles' = r.files
        /\ memOp' = MemOp("AppendToLongTermMemory", "MEMORY.md", r.err)

(***************************************************************************)
(* SpecMemory: any sequence of the three writes, on two dates.             *)
(***************************************************************************)
MemDates == {"d1.md", "d2.md"}

ContentLens == {0, 4, MaxContentLen}

InitMemory ==
    /\ NoCore
    /\ NoProv
    /\ patchArgs = None
    /\ NoChan
    /\ NoCmd
    /\ NoSys
    /\ memoryDir \in {"", "mem"}
    /\ maxFileSize \in {MaxFileSizeCfg \div 2, MaxFileSizeCfg}
    /\ memFiles = <<>>
    /\ memOp = None

MemoryRest ==
    <<coreSide, provSide, memoryDir, maxFileSize, patchArgs, chanSide, cmdSide, sysSide>>

MemoryWriteDailyNote ==
    \E date \in MemDates, n \in ContentLens :
        /\ WriteDailyNote(date, n)
        /\ UNCHANGED MemoryRest

MemoryWriteLongTermMemory ==
    \E n \in ContentLens :
        /\ WriteLongTermMemory(n)
        /\ UNCHANGED MemoryRest

MemoryAppendToLongTermMemory ==
    \E n \in ContentLens :
        /\ AppendToLongTermMemory(n)
        /\ UNCHANGED MemoryRest

NextMemory ==
    \/ MemoryWriteDailyNote
    \/ MemoryWriteLongTermMemory
    \/ MemoryAppendToLongTermMemory

SpecMemory == InitMemory /\ [][NextMemory]_vars

\* C24: no daily note file and no long-term memory file is larger than
\* max_file_size bytes, and a call that returns an error leaves every file
\* as it was.
C24_FilesWithinMaxFileSize ==
    /\ [](\A file \in DOMAIN memFiles : memFiles[file] <= maxFileSize)
    /\ [][(memOp' # None /\ memOp'.err # "") => memFiles' = memFiles]_vars

(***************************************************************************)
(* SpecPatch: apply_patch (ApplyPatchTool.Execute) on the file f of the    *)
(* work directory, for every content of at most MaxPatchLen characters,    *)
(* and on a file that does not exist.                                      *)
(***************************************************************************)
MaxPatchLen == 3

PatchChars == {"o", "x"}

PatchContents == SeqsUpTo(PatchChars, MaxPatchLen)

PatchFs(content) ==
    (<<>> :> [kind |-> "dir"])
    @@ (<<"w">> :> [kind |-> "dir"])
    @@ (<<"w", "f">> :> [kind |-> "file", content |-> content])

InitPatch ==
    /\ terminalEnabled = FALSE
    /\ confirmDangerous = TRUE
    /\ unattendedMode = FALSE
    /\ alwaysAllow = {}
    /\ calls = <<>>
    /\ requests = <<>>
    /\ nextID = 0
    /\ answered = {}
    /\ \E content \in PatchContents : fs = PatchFs(content)
    /\ fsOp = PathOp("", <<>>, "", {})
    /\ NoChat
    /\ NoRouter
    /\ now = 0
    /\ NoSessions
    /\ InitHist
    /\ NoProv
    /\ NoMem
    /\ patchArgs = None
    /\ NoChan
    /\ NoCmd
    /\ NoSys

PatchRest ==
    <<toolSide, sessionSide, llmSide, routerSide, provSide, memSide, chanSide,
      cmdSide, sysSide, now, touched, activity, returnedFor, appended>>

PatchApplyPatch ==
    \E path \in {<<"f">>, <<"new">>},
       oldStr \in {<<"o">>, <<"o", "x">>},
       newStr \in {<<>>, <<"x">>, <<"o", "o">>} :
        /\ Len(fs[<<"w", "f">>].content) + Len(newStr) <= MaxPatchLen + Len(oldStr)
        /\ ApplyPatch(path, oldStr, newStr)
        /\ patchArgs' = [path |-> path, oldStr |-> oldStr, newStr |-> newStr,
                         before |-> fs]
        /\ HistTool("apply_patch")
        /\ UNCHANGED PatchRest

NextPatch == PatchApplyPatch

SpecPatch == InitPatch /\ [][NextPatch]_vars

\* The number of places of s where old occurs.
Occurrences(s, old) ==
    Cardinality({i \in 0..(Len(s) - Len(old)) :
                    SubSeq(s, i + 1, i + Len(old)) = old})

\* C25: apply_patch changes the file only when old_string occurs exactly
\* once in its content: with no occurrence, or more than one, it fails and
\* leaves the file as it was; with one, the new content is the old content
\* with that occurrence replaced by new_string.
C25_PatchNeedsExactlyOneOccurrence ==
    (patchArgs # None /\ patchArgs.path = <<"f">>)
        => LET old == patchArgs.before[<<"w", "f">>].content
               n == Occurrences(old, patchArgs.oldStr)
           IN  IF n = 1
               THEN /\ fsOp.err = ""
                    /\ fs[<<"w", "f">>].content
                          = Replace1(old, patchArgs.oldStr, patchArgs.newStr)
               ELSE /\ fsOp.err # ""
                    /\ fs = patchArgs.before

(***************************************************************************)
(* SpecHist: what a turn sends to the provider (Agent.buildMessages), for  *)
(* MaxTurns blocking turns on two keys that run concurrently or one after  *)
(* the other, with a store of one or two sessions, so that a turn on one   *)
(* key can evict the session of the other.                                 *)
(***************************************************************************)
MaxTurns == 3

\* cfg.SystemPrompt of the agent (CreateAgent).
SystemPrompt == <<"p">>

\* buildMessages limited to the newest message of the session.
buildMessagesNewestOnly(sess) ==
    LET ms == GetMessages(sess)
    IN  (IF SystemPrompt # <<>>
         THEN <<[Role |-> "system", Content |-> SystemPrompt, ToolCalls |-> <<>>]>>
         ELSE <<>>)
        \o SubSeq(ms, Len(ms), Len(ms))

\* buildMessages without the system message.
buildMessagesNoSystem(sess) == GetMessages(sess)

\* buildMessages(sess): the system prompt, then the session's messages.
buildMessages(sess) ==
    (IF SystemPrompt # <<>>
     THEN <<[Role |-> "system", Content |-> SystemPrompt, ToolCalls |-> <<>>]>>
     ELSE <<>>)
    \o GetMessages(sess)

HistResponses ==
    { [err |-> TRUE, Content |-> <<>>, Chunks |-> <<>>, ToolCalls |-> <<>>],
      [err |-> FALSE, Content |-> <<"r">>, Chunks |-> <<"r">>, ToolCalls |-> <<>>] }

HistKeys == {makeKey(u[2], u[1], u[3]) : u \in MsgTuples}

\* The content of the inbound message of turn t.
UserContent(t) == <<"q", ToString(t)>>

NoObs == [key |-> <<>>, gen |-> 0, before |-> {}, asked |-> FALSE,
          sent |-> <<>>, log |-> <<>>]

InitHistory ==
    /\ maxMessages \in {2, 4}
    /\ maxSessions \in 1..2
    /\ idleTimeout = 0
    /\ sessions = <<>>
    /\ lruList = <<>>
    /\ heap = <<>>
    /\ now = 0
    /\ turns = [t \in 1..MaxTurns |-> IdleTurn]
    /\ toolLog = [t \in 1..MaxTurns |-> <<>>]
    /\ turnLog = [t \in 1..MaxTurns |-> <<>>]
    /\ respLog = [t \in 1..MaxTurns |-> <<>>]
    /\ keyHist = [log |-> [k \in HistKeys |-> <<>>],
                  gen |-> [k \in HistKeys |-> 0],
                  obs |-> [t \in 1..MaxTurns |-> NoObs]]
    /\ InitHist
    /\ NoExt
    /\ NoTools
    /\ NoChat
    /\ NoRouter

HistoryRest ==
    <<toolSide, ioSide, sessCfg, now, touched, activity, returnedFor, appended,
      toolLog>>

\* GetOrCreate of the turn: a miss makes the next session of the key.
HistoryStart ==
    \E t \in DOMAIN turns, u \in MsgTuples :
        LET key == makeKey(u[2], u[1], u[3])
            gen == IF key \in DOMAIN sessions THEN keyHist.gen[key]
                   ELSE keyHist.gen[key] + 1
        IN  /\ ProcessMessageStart(t, u[2], u[1], u[3], FALSE)
            /\ HistOp("GetOrCreate")
            /\ keyHist' = [keyHist EXCEPT
                    !.gen[key] = gen,
                    !.obs[t] = [NoObs EXCEPT
                        !.key = key, !.gen = gen,
                        !.before = {v \in DOMAIN turns : turns[v].pc = "done"}]]
            /\ UNCHANGED <<turnLog, respLog, HistoryRest>>

\* An append of turn t enters the log of the turn's key.
HistKeyLog(t) ==
    keyHist' = [keyHist EXCEPT
        !.log[keyHist.obs[t].key] =
            Append(@, [turn |-> t, gen |-> keyHist.obs[t].gen,
                       msg |-> heap'[turns[t].sess].Messages[
                                    Len(heap'[turns[t].sess].Messages)]])]

HistoryAddUser ==
    \E t \in DOMAIN turns :
        /\ ProcessMessageAddUser(t, UserContent(t))
        /\ HistOp("AddMessage")
        /\ HistTurnLog(t)
        /\ HistKeyLog(t)
        /\ UNCHANGED <<respLog, HistoryRest>>

\* messages := a.buildMessages(sess), then the Chat call with them.
HistoryChat ==
    \E t \in DOMAIN turns, resp \in HistResponses :
        /\ ProcessMessageChat(t, resp)
        /\ HistOp("Chat")
        /\ HistRespLog(t, resp)
        /\ keyHist' = [keyHist EXCEPT
                !.obs[t].asked = TRUE,
                !.obs[t].sent = buildMessages(turns[t].sess),
                !.obs[t].log = keyHist.log[keyHist.obs[t].key]]
        /\ UNCHANGED <<turnLog, HistoryRest>>

HistoryAddReply ==
    \E t \in DOMAIN turns :
        /\ ProcessMessageAddReply(t)
        /\ HistOp("AddMessage")
        /\ HistTurnLog(t)
        /\ HistKeyLog(t)
        /\ UNCHANGED <<respLog, HistoryRest>>

HistoryReturn ==
    \E t \in DOMAIN turns :
        /\ ProcessMessageReturn(t)
        /\ HistOp("return")
        /\ UNCHANGED <<turnLog, respLog, keyHist, HistoryRest>>

NextHistory ==
    \/ HistoryStart
    \/ HistoryAddUser
    \/ HistoryChat
    \/ HistoryAddReply
    \/ HistoryReturn

SpecHistory == InitHistory /\ [][NextHistory]_vars

\* The last n elements of a sequence.
LastN(q, n) == SubSeq(q, IF Len(q) > n THEN Len(q) - n + 1 ELSE 1, Len(q))

\* a is b with some elements left out.
RECURSIVE IsSubSeq(_, _)
IsSubSeq(a, b) ==
    IF a = <<>> THEN TRUE
    ELSE IF b = <<>> THEN FALSE
    ELSE IF Head(a) = Head(b) THEN IsSubSeq(Tail(a), Tail(b))
    ELSE IsSubSeq(a, Tail(b))

Msgs(entries) == [j \in 1..Len(entries) |-> entries[j].msg]

\* Of the appends of the key that turn t found when it called the provider,
\* those within the max_messages bound made by turns that had returned
\* before t started.
EarlierOfKey(t) ==
    LET o == keyHist.obs[t]
    IN  Msgs(SelectSeq(LastN(o.log, maxMessages),
                       LAMBDA e : e.turn \in o.before))

\* The same, for the appends made to the session object turn t works on.
EarlierOfSession(t) ==
    LET o == keyHist.obs[t]
        own == SelectSeq(o.log, LAMBDA e : e.gen = o.gen)
    IN  Msgs(SelectSeq(LastN(own, maxMessages), LAMBDA e : e.turn \in o.before))

\* The appends made to the session object turn t works on, as turn t found
\* them when it called the provider.
OwnLog(t) ==
    SelectSeq(keyHist.obs[t].log, LAMBDA e : e.gen = keyHist.obs[t].gen)

\* Turn t has returned a reply, and it alone has worked on the session
\* object GetOrCreate made for it, which the store still holds.
PlainTurnOnFreshSession(t) ==
    LET o == keyHist.obs[t]
    IN  /\ turns[t].pc = "done"
        /\ turns[t].err = ""
        /\ o.key \in DOMAIN sessions
        /\ keyHist.gen[o.key] = o.gen
        /\ \A j \in 1..Len(keyHist.log[o.key]) :
              keyHist.log[o.key][j].gen = o.gen => keyHist.log[o.key][j].turn = t

FollowingGetOrCreate(key) ==
    IF key \in DOMAIN sessions THEN heap[sessions[key]].Messages ELSE <<>>

\* C40: the messages a completed turn has appended (those the max_messages
\* bound of its key has not pushed out) are in the session a following
\* GetOrCreate of the turn's key returns, also when an eviction took the
\* session out of the store while the turn was waiting for the provider.
C40_AppendsSurviveRemoval ==
    \A t \in (IF keyHist = None THEN {} ELSE DOMAIN turns) :
        turns[t].pc = "done"
            => IsSubSeq(
                 Msgs(SelectSeq(LastN(keyHist.log[keyHist.obs[t].key], maxMessages),
                                LAMBDA e : e.turn = t)),
                 FollowingGetOrCreate(keyHist.obs[t].key))

\* C27: the messages a turn sends to the provider contain, in append order,
\* every message (within the max_messages bound) appended by the turns of its
\* key that had returned before it started, whatever the turns on other keys
\* and the session creations in between.
C27_SeesEarlierTurnsOfKey ==
    \A t \in DOMAIN turns :
        (keyHist # None /\ keyHist.obs[t].asked)
            => IsSubSeq(EarlierOfKey(t), keyHist.obs[t].sent)

\* C27, amended: the messages a turn sends to the provider contain, in
\* append order, every message (within the max_messages bound) that the
\* turns returned before it started have appended to the session object it
\* works on; a key whose session was evicted in between starts again with
\* an empty session.
C27_SeesEarlierTurnsOfSession ==
    \A t \in DOMAIN turns :
        (keyHist # None /\ keyHist.obs[t].asked)
            => IsSubSeq(EarlierOfSession(t), keyHist.obs[t].sent)

\* A turn has sent the messages of an earlier turn of its key, and a turn
\* on another key has started.
C27_Witness ==
    /\ keyHist # None
    /\ \E t, w \in DOMAIN turns :
        /\ keyHist.obs[t].asked
        /\ Len(EarlierOfSession(t)) >= 2
        /\ keyHist.obs[w].gen > 0
        /\ keyHist.obs[w].key # keyHist.obs[t].key
        /\ w \notin keyHist.obs[t].before

(***************************************************************************)
(* The channel adapters: telegram Bot.pollLoop / handleUpdate, feishu      *)
(* Bot.handleEventCallback, discord Bot.HandleWebhook. An inbound event    *)
(* carries the id the adapter authorizes (the sender's user id for         *)
(* telegram and feishu, the guild id for discord), its text, and whether   *)
(* it is a message at all (telegram: Message != nil and Text != "";        *)
(* feishu: type im.message.receive_v1; discord: interaction type 2). Each  *)
(* bot has one registered handler (the gateway's), which appends the user  *)
(* message to the sender's session and later returns the reply.            *)
(***************************************************************************)
MaxEvents == 3          \* inbound events in all

Adapters == {"telegram", "feishu", "discord"}

ChannelIds == {"u", "v"}

Event(adapter, id, text, ok) ==
    [adapter |-> adapter, id |-> id, text |-> text, ok |-> ok]

\* The allow-list test of the adapters, read the wrong way round.
unauthorizedInverted(list, id) == list # {} /\ id \in list

\* len(b.allowedUsers) > 0 && !b.allowedUsers[userID]
unauthorized(list, id) == list # {} /\ id \notin list

Sent(adapter, to, kind, re) ==
    [adapter |-> adapter, to |-> to, kind |-> kind, re |-> re]

\* for _, handler := range handlers { go func(h MessageHandler) {...}(handler) }
goHandlers(e) ==
    Append(goroutines, [adapter |-> e.adapter, id |-> e.id, text |-> e.text,
                        pc |-> "go"])

\* telegram Bot.handleUpdate / feishu Bot.handleEventCallback: an
\* unauthorized sender is told so.
handleUpdate(e) ==
    IF ~e.ok
    THEN UNCHANGED <<goroutines, outbox>>
    ELSE IF unauthorized(allowList[e.adapter], e.id)
    THEN /\ outbox' = Append(outbox, Sent(e.adapter, e.id, "unauthorized", e.text))
         /\ UNCHANGED goroutines
    ELSE /\ goroutines' = goHandlers(e)
         /\ UNCHANGED outbox

\* discord Bot.HandleWebhook: an interaction of an unauthorized guild is
\* dropped.
HandleWebhook(e) ==
    IF ~e.ok \/ unauthorized(allowList[e.adapter], e.id)
    THEN UNCHANGED <<goroutines, outbox>>
    ELSE /\ goroutines' = goHandlers(e)
         /\ UNCHANGED outbox

\* The goroutine calls the handler, which appends the user message.
handlerCall(g) ==
    /\ goroutines[g].pc = "go"
    /\ goroutines' = [goroutines EXCEPT ![g].pc = "called"]

\* The handler returns (or panics and is recovered); the adapter sends the
\* response, or the error text (telegram and feishu only).
handlerReturn(g, outcome) ==
    LET r == goroutines[g]
    IN  /\ r.pc = "called"
        /\ goroutines' = [goroutines EXCEPT ![g].pc = "done"]
        /\ outbox' =
             IF outcome = "response"
             THEN Append(outbox, Sent(r.adapter, r.id, "response", r.text))
             ELSE IF outcome = "error" /\ r.adapter # "discord"
             THEN Append(outbox, Sent(r.adapter, r.id, "error", r.text))
             ELSE outbox

(***************************************************************************)
(* SpecChannel: MaxEvents inbound events over the three adapters, each     *)
(* with an empty allow-list or one that holds the id "u". Telegram updates *)
(* come in batches of getUpdates and are handled in their order; feishu    *)
(* and discord events are handled as their HTTP requests come in.          *)
(***************************************************************************)
InitChannel ==
    /\ NoCore
    /\ NoProv
    /\ NoMem
    /\ patchArgs = None
    /\ NoCmd
    /\ NoSys
    /\ allowList \in [Adapters -> {{}, {"u"}}]
    /\ inbox = <<>>
    /\ goroutines = <<>>
    /\ outbox = <<>>
    /\ delivered = <<>>
    /\ handlerLog = <<>>

ChannelRest == <<coreSide, provSide, memSide, patchArgs, cmdSide, sysSide, allowList>>

\* The text of the next inbound event: each is different.
NextText(k) == <<"m", ToString(Len(delivered) + Len(inbox) + k)>>

\* updates, err := b.getUpdates(): the next one or two updates.
ChannelGetUpdates ==
    /\ inbox = <<>>
    /\ \E n \in 1..2, ids \in [1..2 -> ChannelIds], oks \in [1..2 -> BOOLEAN] :
        /\ Len(delivered) + n <= MaxEvents
        /\ inbox' = [k \in 1..n |-> Event("telegram", ids[k], NextText(k), oks[k])]
    /\ UNCHANGED <<goroutines, outbox, delivered, handlerLog, ChannelRest>>

\* One iteration of `for _, update := range updates`.
ChannelHandleUpdate ==
    /\ inbox # <<>>
    /\ handleUpdate(Head(inbox))
    /\ inbox' = Tail(inbox)
    /\ delivered' = Append(delivered, Head(inbox))
    /\ UNCHANGED <<handlerLog, ChannelRest>>

ChannelFeishuEvent ==
    \E id \in ChannelIds, ok \in BOOLEAN :
        LET e == Event("feishu", id, NextText(1), ok)
        IN  /\ Len(delivered) + Len(inbox) < MaxEvents
            /\ handleUpdate(e)
            /\ delivered' = Append(delivered, e)
            /\ UNCHANGED <<inbox, handlerLog, ChannelRest>>

ChannelDiscordWebhook ==
    \E id \in ChannelIds, ok \in BOOLEAN :
        LET e == Event("discord", id, NextText(1), ok)
        IN  /\ Len(delivered) + Len(inbox) < MaxEvents
            /\ HandleWebhook(e)
            /\ delivered' = Append(delivered, e)
            /\ UNCHANGED <<inbox, handlerLog, ChannelRest>>

ChannelHandlerCall ==
    \E g \in DOMAIN goroutines :
        /\ handlerCall(g)
        /\ handlerLog' = Append(handlerLog,
                Event(goroutines[g].adapter, goroutines[g].id,
                      goroutines[g].text, TRUE))
        /\ UNCHANGED <<inbox, outbox, delivered, ChannelRest>>

ChannelHandlerReturn ==
    \E g \in DOMAIN goroutines, outcome \in {"response", "empty", "error", "panic"} :
        /\ handlerReturn(g, outcome)
        /\ UNCHANGED <<inbox, delivered, handlerLog, ChannelRest>>

NextChannel ==
    \/ ChannelGetUpdates
    \/ ChannelHandleUpdate
    \/ ChannelFeishuEvent
    \/ ChannelDiscordWebhook
    \/ ChannelHandlerCall
    \/ ChannelHandlerReturn

SpecChannel == InitChannel /\ [][NextChannel]_vars

\* The texts of the telegram events of one sender in a log.
TelegramTexts(log, id) ==
    LET own == SelectSeq(log, LAMBDA e : e.adapter = "telegram" /\ e.id = id)
    IN  [j \in 1..Len(own) |-> own[j].text]

\* The texts the telegram replies (response or error) to one sender answer.
TelegramReplies(id) ==
    LET own == SelectSeq(outbox, LAMBDA m : /\ m.adapter = "telegram"
                                            /\ m.to = id
                                            /\ m.kind \in {"response", "error"})
    IN  [j \in 1..Len(own) |-> own[j].re]

\* C28: the messages of one telegram sender are appended to the sender's
\* session in the order the channel delivered them, and their replies are
\* sent back in that order.
C28_TelegramPerSenderOrder ==
    \A id \in ChannelIds :
        /\ IsSubSeq(TelegramTexts(handlerLog, id), TelegramTexts(delivered, id))
        /\ IsSubSeq(TelegramReplies(id), TelegramTexts(delivered, id))

\* C29: with a non-empty allow-list the handler of an adapter is never
\* invoked, nor a goroutine started for it, for an event whose id (user id
\* for telegram and feishu, guild id for discord) is not in the list.
C29_AllowListKeepsHandlerOut ==
    /\ \A j \in 1..Len(handlerLog) :
            allowList[handlerLog[j].adapter] # {}
                => handlerLog[j].id \in allowList[handlerLog[j].adapter]
    /\ \A g \in 1..Len(goroutines) :
            allowList[goroutines[g].adapter] # {}
                => goroutines[g].id \in allowList[goroutines[g].adapter]

\* Every adapter has an allow-list and has handled a message of an id that
\* is not in it, and one of a listed id has reached the handler.
C29_Witness ==
    /\ \A a \in Adapters :
        /\ allowList[a] # {}
        /\ \E j \in 1..Len(delivered) :
              /\ delivered[j].adapter = a
              /\ delivered[j].ok
              /\ delivered[j].id \notin allowList[a]
    /\ inbox = <<>>

(***************************************************************************)
(* A command under its deadline: ExecuteCommandTool.Execute                *)
(* (internal/tools/manager.go) from context.WithTimeout on, and the        *)
(* foreground part of TerminalTool.runCommand (internal/tools terminal).   *)
(* Time is counted in seconds since the start of the command; the output   *)
(* is the sequence of the lines the process has written.                   *)
(***************************************************************************)
MaxOutLines == 2        \* lines a command writes

MaxToolTimeout == 2     \* the largest tools.timeout configured

DefaultTerminalTimeout == 30

\* timeout := 30; if t, ok := args["timeout"].(float64); ok { timeout = int(t) }
terminalTimeout(arg) == IF arg.ok THEN arg.t ELSE DefaultTerminalTimeout

\* context.WithTimeout(...) of the two tools, and the process started.
startProcess(tool, arg) ==
    proc' = [tool |-> tool,
             deadline |-> IF tool = "execute_command" THEN toolTimeout
                          ELSE terminalTimeout(arg),
             elapsed |-> 0, output |-> <<>>, pc |-> "running",
             killed |-> FALSE, timedOut |-> FALSE, result |-> <<>>, err |-> ""]

\* The process writes a line (CombinedOutput's buffer, or session.Output).
processWrites ==
    /\ proc # None
    /\ proc.pc = "running"
    /\ proc' = [proc EXCEPT !.output = Append(@, "line")]

\* A second passes.
processTick ==
    /\ proc # None
    /\ proc.pc = "running"
    /\ proc.elapsed < proc.deadline
    /\ proc' = [proc EXCEPT !.elapsed = @ + 1]

\* The process ends by itself and the tool returns: execute_command the
\* output (with 'command failed' for a failure), unless the deadline has
\* passed by then; terminal the output, with an exit marker for a failure.
processExits(status) ==
    /\ proc # None
    /\ proc.pc = "running"
    /\ proc' =
         IF proc.tool = "execute_command"
         THEN IF proc.elapsed = proc.deadline
              THEN [proc EXCEPT !.pc = "returned", !.timedOut = TRUE,
                                !.result = <<>>, !.err = "command timed out"]
              ELSE [proc EXCEPT !.pc = "returned", !.result = proc.output,
                                !.err = IF status = "ok" THEN ""
                                        ELSE "command failed"]
         ELSE [proc EXCEPT !.pc = "returned",
                           !.result = IF status = "ok" THEN proc.output
                                      ELSE Append(proc.output, "[EXIT ERROR]")]

\* The deadline passes with the process running: it is killed and the tool
\* returns, execute_command with an error and no output, terminal with the
\* output and the marker.
deadlineExceeded ==
    /\ proc # None
    /\ proc.pc = "running"
    /\ proc.elapsed = proc.deadline
    /\ proc' =
         IF proc.tool = "execute_command"
         THEN [proc EXCEPT !.pc = "returned", !.killed = TRUE, !.timedOut = TRUE,
                           !.result = <<>>, !.err = "command timed out"]
         ELSE [proc EXCEPT !.pc = "returned", !.killed = TRUE, !.timedOut = TRUE,
                           !.result = Append(proc.output, "[TIMEOUT]")]

(***************************************************************************)
(* SpecDeadline: one command after the other, by either tool, with         *)
(* tools.timeout of 1..MaxToolTimeout seconds and the terminal's timeout   *)
(* argument absent, 1 or 3.                                                *)
(***************************************************************************)
\* args["timeout"] of a terminal run: absent, 1 or 3.
TimeoutArgs ==
    { [ok |-> FALSE, t |-> 0], [ok |-> TRUE, t |-> 1], [ok |-> TRUE, t |-> 3] }

InitDeadline ==
    /\ NoCore
    /\ NoProv
    /\ NoMem
    /\ patchArgs = None
    /\ NoChan
    /\ toolTimeout \in 1..MaxToolTimeout
    /\ proc = None
    /\ NoSys

DeadlineRest ==
    <<coreSide, provSide, memSide, patchArgs, chanSide, toolTimeout, sysSide>>

DeadlineStart ==
    \E tool \in {"execute_command", "terminal"}, arg \in TimeoutArgs :
        /\ IF proc = None THEN TRUE ELSE proc.pc = "returned"
        /\ tool = "execute_command" => ~arg.ok
        /\ startProcess(tool, arg)
        /\ UNCHANGED DeadlineRest

DeadlineWrites ==
    /\ proc # None
    /\ Len(proc.output) < MaxOutLines
    /\ processWrites
    /\ UNCHANGED DeadlineRest

DeadlineTick ==
    /\ processTick
    /\ UNCHANGED DeadlineRest

DeadlineExits ==
    \E status \in {"ok", "failed"} :
        /\ processExits(status)
        /\ UNCHANGED DeadlineRest

DeadlineExceeded ==
    /\ deadlineExceeded
    /\ UNCHANGED DeadlineRest

NextDeadline ==
    \/ DeadlineStart
    \/ DeadlineWrites
    \/ DeadlineTick
    \/ DeadlineExits
    \/ DeadlineExceeded

SpecDeadline == InitDeadline /\ [][NextDeadline]_vars

\* C30: a command still running at its deadline is killed and the tool
\* returns the output accumulated so far followed by the [TIMEOUT] marker,
\* the deadline being the configured tool timeout.
C30_TimeoutKeepsOutput ==
    (proc # None /\ proc.pc = "returned" /\ proc.timedOut)
        => /\ proc.killed
           /\ proc.err = ""
           /\ proc.result = Append(proc.output, "[TIMEOUT]")
           /\ proc.deadline = toolTimeout

(***************************************************************************)
(* ConfirmationManager.RequestConfirmation with its waiter.                *)
(*                                                                         *)
(* waitForResponse polls on a ticker of one second. The clock counts       *)
(* 1/PollPeriod of a second; m.timeout is a whole number of seconds (300   *)
(* in the program, TimeoutPeriods here). The ticker is made after          *)
(* ExpiresAt was computed, delta clock units later, and fires one period   *)
(* after that and then every period; the clock does not pass an instant    *)
(* at which a waiter's ticker is due before that waiter has polled.        *)
(***************************************************************************)
PollPeriod == 2

TimeoutPeriods == 2

pollTimeout == TimeoutPeriods * PollPeriod

PollMaxTime == (TimeoutPeriods + 1) * PollPeriod + 1

FileType == <<"f", "i", "l", "e">>

\* GetPending: the requests of the map whose status is pending.
GetPending == {id \in DOMAIN requests : requests[id].Status = "pending"}

\* RequestConfirmation up to its return (auto-approved) or up to the first
\* wait of waitForResponse, the request stored and the notifiers called.
RequestConfirmation(p, opType, operation, delta) ==
    IF autoApproved(opType, operation)
    THEN /\ calls' = [calls EXCEPT ![p] =
                [IdleCall EXCEPT !.tool = "confirm", !.command = operation,
                                 !.pc = "done", !.gate = "approved"]]
         /\ UNCHANGED <<requests, nextID, notified, ticker>>
    ELSE /\ nextID' = nextID + 1
         /\ requests' = (nextID + 1 :>
                [Type |-> opType, Operation |-> operation,
                 ExpiresAt |-> now + pollTimeout,
                 Status |-> "pending", ApprovedBy |-> ""]) @@ requests
         /\ notified' = notified \o [n \in 1..notifiers |-> nextID + 1]
         /\ ticker' = [ticker EXCEPT ![p] = now + delta + PollPeriod]
         /\ calls' = [calls EXCEPT ![p] =
                [IdleCall EXCEPT !.tool = "confirm", !.command = operation,
                                 !.pc = "wait", !.req = nextID + 1]]

\* case <-ticker.C of waitForResponse: the wait ends, or the request is
\* pending and not expired and the loop waits for the next tick.
tickerFires(p) ==
    /\ calls[p].pc = "wait"
    /\ ticker[p] = now
    /\ \/ /\ waitForResponse(p)
          /\ ticker' = [ticker EXCEPT ![p] = 0]
       \/ /\ calls[p].req \in DOMAIN requests
          /\ now <= requests[calls[p].req].ExpiresAt
          /\ requests[calls[p].req].Status = "pending"
          /\ ticker' = [ticker EXCEPT ![p] = now + PollPeriod]
          /\ UNCHANGED <<calls, requests, nextID>>
    /\ UNCHANGED notified

\* case <-ctx.Done() of waitForResponse.
ctxDone(p) ==
    /\ calls[p].pc = "wait"
    /\ calls' = [calls EXCEPT ![p].pc = "ret", ![p].gate = "cancelled"]
    /\ ticker' = [ticker EXCEPT ![p] = 0]
    /\ UNCHANGED <<requests, nextID, notified>>

\* RequestConfirmation returning without its deferred delete.
returnKeepingRequest(p) ==
    /\ calls[p].pc = "ret"
    /\ calls' = [calls EXCEPT ![p].pc = "done"]
    /\ UNCHANGED <<requests, nextID, notified, ticker>>

\* RequestConfirmation returns what waitForResponse returned; its deferred
\* function deletes the request from the map.
requestConfirmationReturns(p) ==
    LET id == calls[p].req
    IN  /\ calls[p].pc = "ret"
        /\ requests' = [i \in DOMAIN requests \ {id} |-> requests[i]]
        /\ calls' = [calls EXCEPT ![p].pc = "done",
                ![p].final = IF id \in DOMAIN requests
                             THEN requests[id].Status ELSE ""]
        /\ UNCHANGED <<nextID, notified, ticker>>

\* Approve or Reject of an id the map does not hold: 'request not found'.
requestNotFound(id) ==
    /\ id \notin DOMAIN requests
    /\ UNCHANGED <<calls, requests, nextID>>

\* The operation that produced the state, its argument and its error.
HistGate(op, arg, err) ==
    /\ lastOp' = [op |-> op, arg |-> arg, err |-> err]
    /\ removed' = {}

\* An Approve or Reject made on a pending request strictly before its
\* ExpiresAt, with the answer it gave.
HistAnsweredPending(id, verdict) ==
    answered' =
        IF /\ id \in DOMAIN requests
           /\ requests[id].Status = "pending"
           /\ now < requests[id].ExpiresAt
        THEN answered \cup {[id |-> id, verdict |-> verdict]}
        ELSE answered

(***************************************************************************)
(* SpecPoll: MaxCalls callers of RequestConfirmation, the operators'       *)
(* Approve and Reject on every id ever given out, cancellation of a        *)
(* caller's context, the tickers and the clock, with and without a         *)
(* notifier, in unattended mode and not. The calls are made within the     *)
(* first second.                                                           *)
(***************************************************************************)
\* The calls: one whose type is always allowed, one whose operation is,
\* and one that is not.
PollInputs ==
    { [opType |-> TerminalType, operation |-> CmdList],
      [opType |-> FileType, operation |-> CmdMkfs],
      [opType |-> FileType, operation |-> CmdList] }

InitPoll ==
    /\ terminalEnabled = FALSE
    /\ confirmDangerous = TRUE
    /\ unattendedMode \in BOOLEAN
    /\ alwaysAllow = {TerminalType, CmdMkfs}
    /\ calls = [p \in 1..MaxCalls |-> IdleCall]
    /\ requests = <<>>
    /\ nextID = 0
    /\ answered = {}
    /\ fs = <<>>
    /\ fsOp = None
    /\ NoChat
    /\ NoRouter
    /\ now = 0
    /\ NoSessions
    /\ lastOp = [op |-> "NewConfirmationManager", arg |-> 0, err |-> ""]
    /\ removed = {}
    /\ touched = <<>>
    /\ activity = <<>>
    /\ returnedFor = <<>>
    /\ appended = <<>>
    /\ NoProv
    /\ NoMem
    /\ patchArgs = None
    /\ NoChan
    /\ NoCmd
    /\ notifiers \in 0..1
    /\ notified = <<>>
    /\ ticker = [p \in 1..MaxCalls |-> 0]
    /\ NoTerm
    /\ NoGuard
    /\ NoNodes
    /\ NoRace

PollRest ==
    <<toolCfg, fsSide, llmSide, routerSide, provSide, memSide, patchArgs,
      chanSide, cmdSide, notifiers, termSide, guardSide, nodeSide, raceSide,
      sessionSide, touched, activity, returnedFor, appended>>

PollRequestConfirmation ==
    \E p \in DOMAIN calls, in \in PollInputs, delta \in 0..(PollPeriod - 1) :
        /\ calls[p].pc = "idle"
        /\ now < PollPeriod
        /\ RequestConfirmation(p, in.opType, in.operation, delta)
        /\ HistGate("RequestConfirmation",
                    [p |-> p, opType |-> in.opType,
                     operation |-> in.operation], "")
        /\ UNCHANGED <<answered, now, PollRest>>

PollTickerFires ==
    \E p \in DOMAIN calls :
        /\ tickerFires(p)
        /\ HistGate("waitForResponse", 0, "")
        /\ UNCHANGED <<answered, now, PollRest>>

PollCtxDone ==
    \E p \in DOMAIN calls :
        /\ ctxDone(p)
        /\ HistGate("ctx.Done", 0, "")
        /\ UNCHANGED <<answered, now, PollRest>>

PollReturn ==
    \E p \in DOMAIN calls :
        /\ requestConfirmationReturns(p)
        /\ HistGate("return", 0, "")
        /\ UNCHANGED <<answered, now, PollRest>>

PollApprove ==
    \E id \in 1..nextID :
        /\ IF id \in DOMAIN requests
           THEN Approve(id, "operator") /\ HistGate("Approve", id, "")
           ELSE requestNotFound(id)
                    /\ HistGate("Approve", id, "request not found")
        /\ HistAnsweredPending(id, "approved")
        /\ UNCHANGED <<pollSide, now, PollRest>>

PollReject ==
    \E id \in 1..nextID :
        /\ IF id \in DOMAIN requests
           THEN Reject(id, "operator") /\ HistGate("Reject", id, "")
           ELSE requestNotFound(id)
                    /\ HistGate("Reject", id, "request not found")
        /\ HistAnsweredPending(id, "rejected")
        /\ UNCHANGED <<pollSide, now, PollRest>>

PollClock ==
    /\ now < PollMaxTime
    /\ \A p \in DOMAIN calls : calls[p].pc = "wait" => ticker[p] > now
    /\ now' = now + 1
    /\ HistGate("Tick", 0, "")
    /\ UNCHANGED <<toolSide, pollSide, PollRest>>

NextPoll ==
    \/ PollRequestConfirmation
    \/ PollTickerFires
    \/ PollCtxDone
    \/ PollReturn
    \/ PollApprove
    \/ PollReject
    \/ PollClock

SpecPoll == InitPoll /\ [][NextPoll]_vars

\* C32: when Approve or Reject was called on a pending request strictly
\* before its ExpiresAt, the RequestConfirmation call that waits on the
\* request returns the answer of an operator and never reports a timeout,
\* however the ticks of its poll fall between the answer and the expiry.
C32_AnswerBeforeExpiryIsReturned ==
    \A p \in DOMAIN calls : \A a \in answered :
        ( /\ calls[p].tool = "confirm"
          /\ calls[p].pc \in {"ret", "done"}
          /\ calls[p].req = a.id
          /\ calls[p].gate # "cancelled" )
            => calls[p].gate \in {"approved", "rejected"}

\* C33: after RequestConfirmation has returned, approved, rejected, timed
\* out or cancelled, the map holds no request of its id and GetPending
\* does not list it, and an Approve or Reject of that id fails with
\* 'request not found' and changes nothing.
C33_ReturnedRequestIsGone ==
    /\ [](\A p \in DOMAIN calls :
            (calls[p].tool = "confirm" /\ calls[p].pc = "done"
                                       /\ calls[p].req # 0)
                => /\ calls[p].req \notin DOMAIN requests
                   /\ calls[p].req \notin GetPending)
    /\ [][\A p \in DOMAIN calls :
            ( /\ calls[p].tool = "confirm" /\ calls[p].pc = "done"
              /\ lastOp'.op \in {"Approve", "Reject"}
              /\ lastOp'.arg = calls[p].req )
                => /\ lastOp'.err = "request not found"
                   /\ UNCHANGED <<calls, requests, nextID, pollSide>>]_vars

\* Calls have returned approved, rejected, timed out and cancelled, and an
\* Approve of a returned id has failed.
C33_Witness ==
    /\ lastOp.op = "Approve"
    /\ lastOp.err = "request not found"
    /\ \E p, q \in DOMAIN calls :
        /\ calls[p].pc = "done" /\ calls[p].req = lastOp.arg
        /\ calls[p].gate \in {"timeout", "cancelled"}
        /\ calls[q].pc = "done" /\ calls[q].req # 0
        /\ calls[q].gate \in {"approved", "rejected"}

\* C34: under unattended mode, or when the operation or its type equals an
\* always-allow entry, RequestConfirmation returns approved at once and
\* adds no request and calls no notifier.
C34_AutoApprovalLeavesGateUnchanged ==
    [][( /\ lastOp'.op = "RequestConfirmation"
         /\ \/ unattendedMode
            \/ lastOp'.arg.operation \in alwaysAllow
            \/ lastOp'.arg.opType \in alwaysAllow )
        => /\ calls'[lastOp'.arg.p].pc = "done"
           /\ calls'[lastOp'.arg.p].gate = "approved"
           /\ UNCHANGED <<requests, nextID, notified, ticker, answered>>
           /\ \A q \in DOMAIN calls \ {lastOp'.arg.p} : calls'[q] = calls[q]]_vars

\* A call was approved by the always-allow list while another call's
\* request is pending and a notifier is registered.
C34_Witness ==
    /\ lastOp.op = "RequestConfirmation"
    /\ ~unattendedMode
    /\ notifiers > 0
    /\ calls[lastOp.arg.p].pc = "done"
    /\ calls[lastOp.arg.p].gate = "approved"
    /\ calls[lastOp.arg.p].req = 0
    /\ GetPending # {}
    /\ Len(notified) = 1

(***************************************************************************)
(* The sessions of the terminal tool: TerminalTool.runCommand from the     *)
(* point where it makes the session, monitorSession, cancelSession,        *)
(* getSessionOutput and listSessions. A session id is term_<UnixNano of    *)
(* its creation>; the model numbers the sessions in creation order.        *)
(* termSessions keeps every TerminalSession object made, with the field    *)
(* registered telling whether t.sessions holds it.                         *)
(***************************************************************************)
MaxTermSessions == 3

\* t.sessions: the ids the registry holds.
registry == {id \in DOMAIN termSessions : termSessions[id].registered}

\* listSessions: the ids it lists.
listSessions == registry

\* getSessionOutput: the status it reports, or its error.
getSessionOutput(id) ==
    IF id \notin registry THEN "session not found"
    ELSE IF termSessions[id].Running THEN "running" ELSE "completed"

\* runCommand makes the session, stores it and starts the command; a
\* command that does not start is taken out again. A foreground call then
\* waits for the command or for its deadline.
runSession(background, started) ==
    /\ termCount' = termCount + 1
    /\ termSessions' = (termCount + 1 :>
            [Running |-> TRUE, registered |-> started, alive |-> started,
             waited |-> started /\ ~background]) @@ termSessions
    /\ UNCHANGED termReturned

\* case err := <-done of a foreground runCommand: the command has ended;
\* the session is deleted and the output returned.
foregroundDone(id) ==
    /\ termSessions[id].waited
    /\ termSessions' = [termSessions EXCEPT ![id] =
            [Running |-> FALSE, registered |-> FALSE, alive |-> FALSE,
             waited |-> FALSE]]
    /\ termReturned' = termReturned \cup {id}
    /\ UNCHANGED termCount

\* case <-ctx.Done() of a foreground runCommand: the command is killed and
\* the output returned with [TIMEOUT].
foregroundTimeout(id) ==
    /\ termSessions[id].waited
    /\ termSessions[id].alive
    /\ termSessions' = [termSessions EXCEPT ![id].Running = FALSE,
                                            ![id].alive = FALSE,
                                            ![id].waited = FALSE]
    /\ termReturned' = termReturned \cup {id}
    /\ UNCHANGED termCount

\* monitorSession: the command of a background session has ended.
monitorSession(id) ==
    /\ ~termSessions[id].waited
    /\ termSessions[id].alive
    /\ termSessions' = [termSessions EXCEPT ![id].Running = FALSE,
                                            ![id].alive = FALSE]
    /\ UNCHANGED <<termCount, termReturned>>

\* cancelSession: 'session not found', 'Session already completed', or the
\* command is killed, the session deleted and its output returned.
cancelSession(id) ==
    IF id \notin registry \/ ~termSessions[id].Running
    THEN UNCHANGED <<termSessions, termCount, termReturned>>
    ELSE /\ termSessions' = [termSessions EXCEPT ![id].Running = FALSE,
                                                 ![id].alive = FALSE,
                                                 ![id].registered = FALSE]
         /\ termReturned' = termReturned \cup {id}
         /\ UNCHANGED termCount

(***************************************************************************)
(* SpecTerminal: up to MaxTermSessions foreground and background runs,     *)
(* their commands ending or running into the deadline, and cancels of      *)
(* every id given out.                                                     *)
(***************************************************************************)
InitTerminal ==
    /\ NoCore
    /\ NoExt

TerminalRest ==
    <<coreSide, provSide, memSide, patchArgs, chanSide, cmdSide, pollSide,
      guardSide, nodeSide, raceSide>>

TerminalRun ==
    \E background \in BOOLEAN, started \in BOOLEAN :
        /\ termCount < MaxTermSessions
        /\ runSession(background, started)
        /\ UNCHANGED TerminalRest

TerminalForegroundDone ==
    \E id \in DOMAIN termSessions :
        /\ foregroundDone(id)
        /\ UNCHANGED TerminalRest

TerminalForegroundTimeout ==
    \E id \in DOMAIN termSessions :
        /\ foregroundTimeout(id)
        /\ UNCHANGED TerminalRest

TerminalMonitor ==
    \E id \in DOMAIN termSessions :
        /\ monitorSession(id)
        /\ UNCHANGED TerminalRest

TerminalCancel ==
    \E id \in 1..termCount :
        /\ id \in registry
        /\ termSessions[id].Running
        /\ cancelSession(id)
        /\ UNCHANGED TerminalRest

NextTerminal ==
    \/ TerminalRun
    \/ TerminalForegroundDone
    \/ TerminalForegroundTimeout
    \/ TerminalMonitor
    \/ TerminalCancel

SpecTerminal == InitTerminal /\ [][NextTerminal]_vars

\* C35: once a foreground run has returned, on the command's end or on its
\* timeout, or a cancel has returned the output, the registry no longer
\* holds the session id: list does not show it and output does not find it.
C35_ReturnedSessionIsRemoved ==
    \A id \in termReturned :
        /\ id \notin listSessions
        /\ getSessionOutput(id) = "session not found"

(***************************************************************************)
(* health.MemoryGuard: check, run by monitorLoop on every tick of its      *)
(* CheckInterval ticker, triggerEmergencyRecovery and ForceGC. Instants    *)
(* are counted in checks; the time since the last reclamation is below     *)
(* CooldownPeriod one check after it, may be either side of it two checks  *)
(* after it, and is above it from then on.                                 *)
(***************************************************************************)
GCTriggerMemoryMB == 80

CriticalMemoryMB == 120

GCFailureThreshold == 3

CooldownChecks == 2     \* CooldownPeriod / CheckInterval

MaxChecks == 8

\* The sampled heap sizes, and what a reclamation frees.
HeapSamples == {GCTriggerMemoryMB, GCTriggerMemoryMB + 1,
                CriticalMemoryMB, CriticalMemoryMB + 1}

FreedSamples == {0, 5, 6}

NewMemoryGuard ==
    [consecutiveHigh |-> 0, lastGC |-> 0 - CooldownChecks - 1,
     gcFailures |-> 0, totalRestarts |-> 0, emergencyMode |-> FALSE,
     critical |-> 0]

\* A reclamation that counts as failed whatever it frees.
alwaysIneffective(beforeMB, afterMB) == TRUE

\* afterMB >= beforeMB-5
gcIneffective(beforeMB, afterMB) == afterMB >= beforeMB - 5

\* time.Since(g.lastGC) < CooldownPeriod at check number k; early tells
\* which side a check two intervals after the reclamation falls on.
inCooldown(k, early) ==
    \/ k - guard.lastGC < CooldownChecks
    \/ k - guard.lastGC = CooldownChecks /\ early

triggerEmergencyRecovery(g) ==
    [g EXCEPT !.totalRestarts = @ + 1]

\* MemoryGuard.check at check number k: heapMB is the first sample, afterMB
\* the sample after the reclamation.
check(k, heapMB, afterMB, early) ==
    guard' =
        IF heapMB > CriticalMemoryMB
        THEN [guard EXCEPT !.critical = @ + 1]
        ELSE IF heapMB > GCTriggerMemoryMB
        THEN LET high == [guard EXCEPT !.consecutiveHigh = @ + 1]
             IN  IF inCooldown(k, early) THEN high
                 ELSE LET gc == [high EXCEPT !.lastGC = k]
                      IN  IF gcIneffective(heapMB, afterMB)
                          THEN LET failed == [gc EXCEPT !.gcFailures = @ + 1]
                               IN  IF failed.gcFailures >= GCFailureThreshold
                                   THEN triggerEmergencyRecovery(
                                            [failed EXCEPT !.emergencyMode = TRUE])
                                   ELSE failed
                          ELSE [gc EXCEPT !.gcFailures = 0]
        ELSE [guard EXCEPT !.consecutiveHigh = 0,
                           !.gcFailures = IF @ > 0 THEN @ - 1 ELSE @,
                           !.emergencyMode = FALSE]

ForceGC(k) ==
    guard' = [guard EXCEPT !.lastGC = k]

\* The check just made: its samples, whether it reclaimed, and the number
\* of failed reclamations since the last one that freed more than 5 MiB.
HistCheck(heapMB, afterMB) ==
    LET reclaimed == guard'.lastGC # guard.lastGC
    IN  guardHist' =
            [checks |-> guardHist.checks + 1,
             heapMB |-> heapMB, afterMB |-> afterMB, reclaimed |-> reclaimed,
             streak |-> IF ~reclaimed THEN guardHist.streak
                        ELSE IF heapMB - afterMB <= 5
                        THEN guardHist.streak + 1
                        ELSE 0,
             lows |-> guardHist.lows
                        + (IF heapMB <= GCTriggerMemoryMB THEN 1 ELSE 0)]

(***************************************************************************)
(* SpecGuard: MaxChecks checks on every sample, and ForceGC between them.  *)
(***************************************************************************)
InitGuard ==
    /\ NoCore
    /\ NoProv
    /\ NoMem
    /\ patchArgs = None
    /\ NoChan
    /\ NoCmd
    /\ NoPoll
    /\ NoTerm
    /\ NoNodes
    /\ NoRace
    /\ guard = NewMemoryGuard
    /\ guardHist = [checks |-> 0, heapMB |-> 0, afterMB |-> 0,
                    reclaimed |-> FALSE, streak |-> 0, lows |-> 0]

GuardRest ==
    <<coreSide, provSide, memSide, patchArgs, chanSide, cmdSide, pollSide,
      termSide, nodeSide, raceSide>>

GuardCheck ==
    \E heapMB \in HeapSamples, freed \in FreedSamples, early \in BOOLEAN :
        /\ guardHist.checks < MaxChecks
        /\ check(guardHist.checks + 1, heapMB, heapMB - freed, early)
        /\ HistCheck(heapMB, heapMB - freed)
        /\ UNCHANGED GuardRest

GuardForceGC ==
    /\ guardHist.checks < MaxChecks
    /\ guard.lastGC # guardHist.checks
    /\ ForceGC(guardHist.checks)
    /\ UNCHANGED <<guardHist, GuardRest>>

NextGuard ==
    \/ GuardCheck
    \/ GuardForceGC

SpecGuard == InitGuard /\ [][NextGuard]_vars

\* C36: the guard sets its emergency flag and runs the recovery only at a
\* check whose reclamation failed (freed at most 5 MiB) and was at least
\* the GCFailureThreshold-th failed reclamation in a row; a check whose
\* sample is at or below GCTriggerMemoryMB lowers the failure counter (not
\* below zero) and clears the flag; a check whose sample is above
\* CriticalMemoryMB calls onCritical and changes no counter.
C36_EmergencyOnlyAfterRepeatedFailure ==
    [][guardHist'.checks # guardHist.checks =>
        /\ ( \/ guard'.emergencyMode /\ ~guard.emergencyMode
             \/ guard'.totalRestarts # guard.totalRestarts )
            => /\ guardHist'.reclaimed
               /\ guardHist'.heapMB - guardHist'.afterMB <= 5
               /\ guardHist'.streak >= GCFailureThreshold
               /\ guard'.emergencyMode
               /\ guard'.totalRestarts = guard.totalRestarts + 1
        /\ guardHist'.heapMB <= GCTriggerMemoryMB
            => /\ guard'.gcFailures =
                    (IF guard.gcFailures = 0 THEN 0 ELSE guard.gcFailures - 1)
               /\ ~guard'.emergencyMode
               /\ guard'.totalRestarts = guard.totalRestarts
               /\ guard'.critical = guard.critical
        /\ guardHist'.heapMB > CriticalMemoryMB
            => /\ guard'.critical = guard.critical + 1
               /\ guard' = [guard EXCEPT !.critical = @ + 1]]_vars

\* The guard is in emergency mode after three failed reclamations, and it
\* has made a check at or below the trigger and one above critical.
C36_Witness ==
    /\ guard # None
    /\ guard.emergencyMode
    /\ guard.totalRestarts >= 1
    /\ guardHist.streak >= GCFailureThreshold
    /\ guardHist.lows >= 1
    /\ guard.critical >= 1

(***************************************************************************)
(* The session store with the elements of its list: Manager.sessions maps  *)
(* a key to a *list.Element, the element holds a sessionEntry with its     *)
(* own copy of the key. Every operation below runs under Manager.mu, from  *)
(* its first access of the map to its last, so the operations of           *)
(* concurrent callers take effect one after the other. Which sessions a    *)
(* cleanup finds idle is left open.                                        *)
(***************************************************************************)
MaxElems == 4

\* container/list: Remove, MoveToFront and PushFront on elemList.
listRemove(l, e) == SelectSeq(l, LAMBDA x : x # e)

listMoveToFront(l, e) == IF e \in Range(l) THEN <<e>> \o listRemove(l, e) ELSE l

\* evictLRU that takes the element out of the list and leaves the map.
evictLRUFromListOnly ==
    IF elemList = <<>>
    THEN [list |-> elemList, map |-> elemMap]
    ELSE [list |-> SubSeq(elemList, 1, Len(elemList) - 1), map |-> elemMap]

\* evictLRU: the list and the map after it.
evictLRUElement ==
    IF elemList = <<>>
    THEN [list |-> elemList, map |-> elemMap]
    ELSE LET elem == elemList[Len(elemList)]
         IN  [list |-> listRemove(elemList, elem),
              map |-> [k \in DOMAIN elemMap \ {elements[elem].key} |-> elemMap[k]]]

GetOrCreateElement(userID, channel, agentID) ==
    LET key == makeKey(userID, channel, agentID)
    IN  IF key \in DOMAIN elemMap
        THEN /\ elemList' = listMoveToFront(elemList, elemMap[key])
             /\ UNCHANGED <<elements, elemMap>>
        ELSE LET after == IF Cardinality(DOMAIN elemMap) >= maxSessions
                          THEN evictLRUElement
                          ELSE [list |-> elemList, map |-> elemMap]
                 elem == Len(elements) + 1
             IN  /\ elements' = Append(elements, [key |-> key])
                 /\ elemList' = <<elem>> \o after.list
                 /\ elemMap' = (key :> elem) @@ after.map

GetElement(userID, channel, agentID) ==
    LET key == makeKey(userID, channel, agentID)
    IN  /\ key \in DOMAIN elemMap
        /\ elemList' = listMoveToFront(elemList, elemMap[key])
        /\ UNCHANGED <<elements, elemMap>>

DeleteElement(userID, channel, agentID) ==
    LET key == makeKey(userID, channel, agentID)
    IN  /\ key \in DOMAIN elemMap
        /\ elemList' = listRemove(elemList, elemMap[key])
        /\ elemMap' = [k \in DOMAIN elemMap \ {key} |-> elemMap[k]]
        /\ UNCHANGED elements

\* cleanup: every element of the list found idle is removed, and the key
\* of its entry deleted from the map.
cleanupElements(idle) ==
    /\ elemList' = SelectSeq(elemList, LAMBDA e : e \notin idle)
    /\ elemMap' = [k \in DOMAIN elemMap \ {elements[e].key : e \in idle}
                        |-> elemMap[k]]
    /\ UNCHANGED elements

\* Close: a new map, and lruList.Init().
Close ==
    /\ elemMap' = <<>>
    /\ elemList' = <<>>
    /\ UNCHANGED elements

(***************************************************************************)
(* SpecNodes: GetOrCreate, Get and Delete on every tuple, cleanup with     *)
(* every choice of idle sessions, and Close, in any order, until MaxElems  *)
(* elements have been made, under every max_sessions.                      *)
(***************************************************************************)
InitNodes ==
    /\ maxMessages = 0
    /\ maxSessions \in 0..MaxSessionsCfg
    /\ idleTimeout = 0
    /\ sessions = <<>>
    /\ lruList = <<>>
    /\ heap = <<>>
    /\ now = 0
    /\ turns = <<>>
    /\ toolLog = <<>>
    /\ turnLog = <<>>
    /\ respLog = <<>>
    /\ keyHist = None
    /\ InitHist
    /\ NoTools
    /\ NoChat
    /\ NoRouter
    /\ NoExt

NodesRest ==
    <<coreSide, provSide, memSide, patchArgs, chanSide, cmdSide, pollSide,
      termSide, guardSide, raceSide>>

NodesGetOrCreate ==
    \E t \in StoreTuples :
        /\ Len(elements) < MaxElems
        /\ GetOrCreateElement(t[2], t[1], t[3])
        /\ UNCHANGED NodesRest

NodesGet ==
    \E t \in StoreTuples :
        /\ GetElement(t[2], t[1], t[3])
        /\ UNCHANGED NodesRest

NodesDelete ==
    \E t \in StoreTuples :
        /\ DeleteElement(t[2], t[1], t[3])
        /\ UNCHANGED NodesRest

NodesCleanup ==
    \E idle \in SUBSET Range(elemList) :
        /\ idle # {}
        /\ cleanupElements(idle)
        /\ UNCHANGED NodesRest

NodesClose ==
    /\ elemList # <<>>
    /\ Close
    /\ UNCHANGED NodesRest

NextNodes ==
    \/ NodesGetOrCreate
    \/ NodesGet
    \/ NodesDelete
    \/ NodesCleanup
    \/ NodesClose

SpecNodes == InitNodes /\ [][NextNodes]_vars

\* C37: the keys of the sessions map are the keys held by the elements of
\* the list, each key is held by exactly one element of the list, and the
\* map entry of a key is the element of the list that holds that key.
C37_MapAndListAgree ==
    /\ DOMAIN elemMap = {elements[e].key : e \in Range(elemList)}
    /\ \A i, j \in DOMAIN elemList :
          elements[elemList[i]].key = elements[elemList[j]].key => i = j
    /\ \A k \in DOMAIN elemMap :
          /\ elemMap[k] \in Range(elemList)
          /\ elements[elemMap[k]].key = k

\* The store is full, an eviction and a cleanup have removed elements,
\* and a key is held again by a newer element.
C37_Witness ==
    /\ maxSessions = 2
    /\ Len(elemList) = 2
    /\ Len(elements) = MaxElems
    /\ \E e \in DOMAIN elements :
          /\ e \notin Range(elemList)
          /\ elements[e].key \in DOMAIN elemMap

(***************************************************************************)
(* The locks around Session.LastActivity. The store holds the sessions of  *)
(* RaceSessions, in the list in that order, front first. A goroutine       *)
(* inside an operation has taken the operation's mutex and stands at the   *)
(* statement that reads or writes the LastActivity of session s:           *)
(* GetOrCreate (a hit) and cleanup take Manager.mu; AddMessage,            *)
(* AddToolCallMessage and Clear take the Session.mu of their session.      *)
(***************************************************************************)
RaceSessions == 1..2

IdleThread == [op |-> "", s |-> 0, holds |-> ""]

ManagerOps == {"GetOrCreate", "cleanup"}

SessionOps == {"AddMessage", "AddToolCallMessage", "Clear"}

\* The operations that write LastActivity; cleanup reads it.
WritesLastActivity(op) == op \in {"GetOrCreate"} \cup SessionOps

\* m.mu.Lock() of GetOrCreate for the key of session s (then
\* session.LastActivity = time.Now()), or of cleanup (then the read of
\* entry.session.LastActivity, s the element at the back).
managerLock(g, op, s) ==
    /\ threads[g] = IdleThread
    /\ mu.mgr = 0
    /\ mu' = [mu EXCEPT !.mgr = g]
    /\ threads' = [threads EXCEPT ![g] =
            [op |-> op, s |-> s, holds |-> "Manager.mu"]]

\* session.mu.Lock() of AddMessage, AddToolCallMessage and Clear, then
\* session.LastActivity = time.Now().
sessionLock(g, op, s) ==
    /\ threads[g] = IdleThread
    /\ mu.sess[s] = 0
    /\ mu' = [mu EXCEPT !.sess[s] = g]
    /\ threads' = [threads EXCEPT ![g] =
            [op |-> op, s |-> s, holds |-> "Session.mu"]]

\* elem = next of cleanup: the element before, toward the front.
cleanupNext(g) ==
    /\ threads[g].op = "cleanup"
    /\ threads[g].s > 1
    /\ threads' = [threads EXCEPT ![g].s = @ - 1]
    /\ UNCHANGED mu

\* The deferred Unlock: the operation returns.
unlock(g) ==
    /\ threads[g].op # ""
    /\ threads[g].op = "cleanup" => threads[g].s = 1
    /\ mu' = IF threads[g].holds = "Manager.mu"
             THEN [mu EXCEPT !.mgr = 0]
             ELSE [mu EXCEPT !.sess[threads[g].s] = 0]
    /\ threads' = [threads EXCEPT ![g] = IdleThread]

(***************************************************************************)
(* SpecRace: MaxGoroutines goroutines, each calling any of the operations  *)
(* on any of the sessions, again and again.                                *)
(***************************************************************************)
InitRace ==
    /\ NoCore
    /\ NoProv
    /\ NoMem
    /\ patchArgs = None
    /\ NoChan
    /\ NoCmd
    /\ NoPoll
    /\ NoTerm
    /\ NoGuard
    /\ NoNodes
    /\ threads = [g \in 1..MaxGoroutines |-> IdleThread]
    /\ mu = [mgr |-> 0, sess |-> [s \in RaceSessions |-> 0]]

RaceRest ==
    <<coreSide, provSide, memSide, patchArgs, chanSide, cmdSide, pollSide,
      termSide, guardSide, nodeSide>>

RaceGetOrCreate ==
    \E g \in DOMAIN threads, s \in RaceSessions :
        /\ managerLock(g, "GetOrCreate", s)
        /\ UNCHANGED RaceRest

RaceCleanup ==
    \E g \in DOMAIN threads :
        /\ managerLock(g, "cleanup", Cardinality(RaceSessions))
        /\ UNCHANGED RaceRest

RaceSessionOp ==
    \E g \in DOMAIN threads, op \in SessionOps, s \in RaceSessions :
        /\ sessionLock(g, op, s)
        /\ UNCHANGED RaceRest

RaceCleanupNext ==
    \E g \in DOMAIN threads :
        /\ cleanupNext(g)
        /\ UNCHANGED RaceRest

RaceUnlock ==
    \E g \in DOMAIN threads :
        /\ unlock(g)
        /\ UNCHANGED RaceRest

NextRace ==
    \/ RaceGetOrCreate
    \/ RaceCleanup
    \/ RaceSessionOp
    \/ RaceCleanupNext
    \/ RaceUnlock

SpecRace == InitRace /\ [][NextRace]_vars

\* C39: two goroutines that stand at an access of the same session's
\* LastActivity, one of them at a write, hold the same mutex (so no two
\* goroutines do: the accesses are serialized).
C39_LastActivityUnderCommonLock ==
    \A g, h \in DOMAIN threads :
        ( /\ g # h
          /\ threads[g].op # "" /\ threads[h].op # ""
          /\ threads[g].s = threads[h].s
          /\ WritesLastActivity(threads[g].op) \/ WritesLastActivity(threads[h].op) )
            => threads[g].holds = threads[h].holds

====
